---- MODULE Spec2Model ----
(***************************************************************************)
(* GROOT: the Orchestrator's merge step and pipeline (core/orchestrator.ts) *)
(* and the Session Manager (core/session.ts) with the wake and rest        *)
(* commands of the CLI built on it.                                        *)
(*                                                                         *)
(* Three specifications share the module:                                  *)
(*   SpecMerge   - Orchestrator.mergeFeedback called on a feedback list    *)
(*   SpecOrch    - one run of Orchestrator.orchestrateGrow                 *)
(*   SpecSession - the session module's operations on session objects      *)
(***************************************************************************)
EXTENDS Integers, Sequences, FiniteSets, TLC

(***************************************************************************)
(* Bounds of the model.                                                    *)
(***************************************************************************)
\* longest feedback list handed to mergeFeedback
MaxFeedback == 3

\* most concerns a reviewer reports in one review
MaxConcerns == 1

\* most Session objects the process creates (started or loaded)
MaxSessions == 2

\* most notes, and most questions, recorded on one session
MaxNotes == 2

\* how many times the clock advances
MaxTicks == 1

\* most session files in the sessions directory a listing starts from
MaxStored == 2

\* how many steps the process takes: calls of the session module and
\* advances of the clock
MaxSteps == 4

(***************************************************************************)
(* Values.                                                                 *)
(***************************************************************************)
\* target.phaseNumber is optional; the code reads it only through its
\* truthiness (f.target.phaseNumber && ..., f.target.phaseNumber || 'all'),
\* where undefined and 0 behave alike
NoPhase == 0

\* suggestedChange is optional; the code reads it through its truthiness,
\* where undefined and the empty string behave alike
NoChange == ""

\* messages are sequences of characters, so that toLowerCase and includes
\* are computed on them
MsgUp == <<"A", "d", "d", " ", "d", "e", "p", "t", "h">>
MsgDown == <<"s", "i", "m", "p", "l", "i", "f", "y">>
MsgNeutral == <<"f", "i", "n", "e">>

\* review_pedagogy.execute: the message of the progression feedback
MsgTooFast ==
  <<"L", "e", "a", "r", "n", "i", "n", "g", " ", "p", "r", "o", "g", "r",
    "e", "s", "s", "i", "o", "n", " ", "i", "s", " ", "t", "o", "o", " ",
    "f", "a", "s", "t", " ", "-", " ", "l", "e", "a", "r", "n", "e", "r",
    "s", " ", "m", "a", "y", " ", "f", "e", "e", "l", " ", "o", "v", "e",
    "r", "w", "h", "e", "l", "m", "e", "d">>

MsgTooSlow ==
  <<"L", "e", "a", "r", "n", "i", "n", "g", " ", "p", "r", "o", "g", "r",
    "e", "s", "s", "i", "o", "n", " ", "i", "s", " ", "t", "o", "o", " ",
    "s", "l", "o", "w", " ", "-", " ", "l", "e", "a", "r", "n", "e", "r",
    "s", " ", "m", "a", "y", " ", "l", "o", "s", "e", " ", "i", "n", "t",
    "e", "r", "e", "s", "t">>

\* a message the reviewer's tool input left out: concern.issue is undefined
NoMessage == <<"undefined">>

\* the messages of the model
Messages == {MsgUp, MsgDown, MsgNeutral, MsgTooFast, MsgTooSlow}

UpperCase ==
  <<"A", "B", "C", "D", "E", "F", "G", "H", "I", "J", "K", "L", "M",
    "N", "O", "P", "Q", "R", "S", "T", "U", "V", "W", "X", "Y", "Z">>

LowerCase ==
  <<"a", "b", "c", "d", "e", "f", "g", "h", "i", "j", "k", "l", "m",
    "n", "o", "p", "q", "r", "s", "t", "u", "v", "w", "x", "y", "z">>

\* String.prototype.toLowerCase, character by character
toLowerCase(s) ==
  [i \in 1..Len(s) |->
     IF \E k \in 1..Len(UpperCase) : UpperCase[k] = s[i]
     THEN LowerCase[CHOOSE k \in 1..Len(UpperCase) : UpperCase[k] = s[i]]
     ELSE s[i]]

\* String.prototype.includes: word occurs in s as a substring
includes(s, word) ==
  \E i \in 1..(Len(s) - Len(word) + 1) : SubSeq(s, i, i + Len(word) - 1) = word

\* checkForOpposingSuggestions: const complexityUp
complexityUp ==
  { <<"a", "d", "d">>,
    <<"i", "n", "c", "r", "e", "a", "s", "e">>,
    <<"m", "o", "r", "e">>,
    <<"a", "d", "v", "a", "n", "c", "e", "d">>,
    <<"c", "o", "m", "p", "l", "e", "x">> }

\* checkForOpposingSuggestions: const complexityDown
complexityDown ==
  { <<"s", "i", "m", "p", "l", "i", "f", "y">>,
    <<"r", "e", "d", "u", "c", "e">>,
    <<"l", "e", "s", "s">>,
    <<"b", "a", "s", "i", "c">>,
    <<"r", "e", "m", "o", "v", "e">> }

\* an AgentFeedback object
Feedback(agent, type, cat, ttype, phase, msg, sev, change) ==
  [agentName |-> agent, feedbackType |-> type, category |-> cat,
   target |-> [type |-> ttype, phaseNumber |-> phase],
   message |-> msg, severity |-> sev, suggestedChange |-> change]

\* the category each agent files its findings under
CategoryOf(agent) ==
  CASE agent = "canopy" -> "technical"
    [] agent = "bark" -> "pedagogical"
    [] OTHER -> "sequencing"

\* (feedbackType, severity, suggestedChange) of the feedback items fed to the
\* merge step: a plain concern with a change, a critical blocker, and a
\* blocker that is not critical and suggests no change
FeedbackKinds ==
  { <<"concern", "medium", "split the phase">>,
    <<"blocker", "critical", "rework">>,
    <<"blocker", "high", NoChange>> }

\* the feedback items fed to the merge step
FeedbackItems ==
  { Feedback(a, k[1], CategoryOf(a), "curriculum", NoPhase, m, k[2], k[3]) :
      a \in {"canopy", "bark"}, m \in {MsgUp, MsgDown}, k \in FeedbackKinds }
  \cup
  { Feedback(a, "concern", CategoryOf(a), "curriculum", NoPhase, MsgNeutral,
             "medium", "split the phase") : a \in {"canopy", "bark"} }
  \cup
  { Feedback(a, k[1], CategoryOf(a), "phase", 1,
             IF a = "canopy" THEN MsgUp ELSE MsgDown, k[2], k[3]) :
      a \in {"canopy", "bark"},
      k \in {kind \in FeedbackKinds : kind[3] # NoChange} }
  \cup
  { Feedback("seedling", "concern", "sequencing", "curriculum", NoPhase, MsgNeutral,
             "medium", "split the phase") }

\* the curriculum handed to the merge step
SampleCurriculum == [id |-> "c1", title |-> "Intro to Testing", phases |-> <<1, 2>>]

NoResult == [success |-> FALSE, finalCurriculum |-> "none", allFeedback |-> <<>>,
             appliedChanges |-> <<>>, unresolvedIssues |-> <<>>, returned |-> FALSE]

VARIABLES
  feedbackIn,        \* the AgentFeedback[] a caller has assembled
  mergeResult,       \* the OrchestrationResult of mergeFeedback, once it has run
  consensusReached,  \* context.consensusReached
  orchPc,            \* where orchestrateGrow stands: the stage awaited, or its end
  fromFile,          \* options.fromFile of the run
  topicOrFile,       \* the topic, or the file, orchestrateGrow is called with
  events,            \* the onPhaseStart / onPhaseComplete callbacks fired so far
  agentCalls,        \* how often each agent has been invoked
  inFlight,          \* the agents whose call has not returned yet
  orchCurriculum,    \* const curriculum of orchestrateGrow
  technicalFeedback, \* technicalReview.feedback
  pedagogicalFeedback, \* pedagogicalReview.feedback
  orchError,         \* the error orchestrateGrow has thrown
  sessions,          \* the Session objects of the process, by reference
  currentSession,    \* let currentSession: a reference, or NoSession for null
  disk,              \* the files of the sessions directory, by file name
  now,               \* the clock new Date() reads, in milliseconds
  ticks,             \* how many times the clock has advanced
  calls,             \* how many calls of the session module were made
  lastCall           \* the last call of the session module and how it ended

mergeVars == <<feedbackIn, mergeResult, consensusReached>>

orchVars == <<orchPc, fromFile, topicOrFile, events, agentCalls, inFlight, orchCurriculum,
              technicalFeedback, pedagogicalFeedback, orchError>>

sessionVars == <<sessions, currentSession, disk, now, ticks, calls, lastCall>>

vars == <<feedbackIn, mergeResult, consensusReached, orchPc, fromFile, topicOrFile, events,
          agentCalls, inFlight, orchCurriculum, technicalFeedback,
          pedagogicalFeedback, orchError, sessions, currentSession, disk, now,
          ticks, calls, lastCall>>

(***************************************************************************)
(* Orchestrator.detectConflicts and checkForOpposingSuggestions.  Lists of *)
(* feedback objects are lists of references: indices into allFeedback.     *)
(***************************************************************************)
Range(s) == {s[i] : i \in 1..Len(s)}

\* `${f.target.type}-${f.target.phaseNumber || 'all'}`
TargetKey(f) ==
  <<f.target.type, "-",
    IF f.target.phaseNumber # NoPhase THEN ToString(f.target.phaseNumber) ELSE "all">>

\* the keys of the byTarget map, in insertion order
RECURSIVE KeyOrder(_, _)
KeyOrder(fb, n) ==
  IF n = 0 THEN <<>>
  ELSE LET before == KeyOrder(fb, n - 1)
       IN IF TargetKey(fb[n]) \in Range(before) THEN before
          ELSE Append(before, TargetKey(fb[n]))

\* byTarget.get(key): the references of the group, in list order
GroupOf(fb, key) ==
  SelectSeq([i \in 1..Len(fb) |-> i], LAMBDA i : TargetKey(fb[i]) = key)

\* group.filter(f => f.agentName === agent)
ByAgent(fb, group, agent) == SelectSeq(group, LAMBDA i : fb[i].agentName = agent)

\* words.some(word => f.message.toLowerCase().includes(word)), for each
\* message of the model, with words = complexityUp
MessageWantsMore ==
  [m \in Messages |-> \E word \in complexityUp : includes(toLowerCase(m), word)]

\* the same with words = complexityDown
MessageWantsLess ==
  [m \in Messages |-> \E word \in complexityDown : includes(toLowerCase(m), word)]

\* list.some(f => words.some(word => f.message.toLowerCase().includes(word)))
Wants(fb, list, messageWants) ==
  \E n \in 1..Len(list) : messageWants[fb[list[n]].message]

\* checkForOpposingSuggestions gone wrong: it does not look at who asks
checkForOpposingSuggestionsFromAnyone(fb, canopyFeedback, barkFeedback) ==
  LET canopyWantsMore == Wants(fb, canopyFeedback, MessageWantsMore)
      canopyWantsLess == Wants(fb, canopyFeedback, MessageWantsLess)
      barkWantsMore == Wants(fb, barkFeedback, MessageWantsMore)
      barkWantsLess == Wants(fb, barkFeedback, MessageWantsLess)
  IN (canopyWantsMore \/ barkWantsMore) /\ (canopyWantsLess \/ barkWantsLess)

checkForOpposingSuggestions(fb, canopyFeedback, barkFeedback) ==
  LET canopyWantsMore == Wants(fb, canopyFeedback, MessageWantsMore)
      canopyWantsLess == Wants(fb, canopyFeedback, MessageWantsLess)
      barkWantsMore == Wants(fb, barkFeedback, MessageWantsMore)
      barkWantsLess == Wants(fb, barkFeedback, MessageWantsLess)
  IN (canopyWantsMore /\ barkWantsLess) \/ (canopyWantsLess /\ barkWantsMore)

\* what one iteration of the loop over byTarget pushes on conflicts
ConflictsPushed(fb, group) ==
  LET canopyFeedback == ByAgent(fb, group, "canopy")
      barkFeedback == ByAgent(fb, group, "bark")
  IN IF checkForOpposingSuggestions(fb, canopyFeedback, barkFeedback)
     THEN canopyFeedback \o barkFeedback
     ELSE <<>>

\* what one iteration of the loop over byTarget pushes on nonConflicting
NonConflictingPushed(fb, group) ==
  LET canopyFeedback == ByAgent(fb, group, "canopy")
      barkFeedback == ByAgent(fb, group, "bark")
  IN IF checkForOpposingSuggestions(fb, canopyFeedback, barkFeedback)
     THEN <<>>
     ELSE group

RECURSIVE detectConflictsLoop(_, _, _)
detectConflictsLoop(fb, keys, n) ==
  IF n = 0 THEN [conflicts |-> <<>>, nonConflicting |-> <<>>]
  ELSE LET acc == detectConflictsLoop(fb, keys, n - 1)
           group == GroupOf(fb, keys[n])
       IN [conflicts |-> acc.conflicts \o ConflictsPushed(fb, group),
           nonConflicting |-> acc.nonConflicting \o NonConflictingPushed(fb, group)]

detectConflicts(fb) ==
  LET keys == KeyOrder(fb, Len(fb))
  IN detectConflictsLoop(fb, keys, Len(keys))

(***************************************************************************)
(* Orchestrator.mergeFeedback.                                             *)
(***************************************************************************)
\* `[${feedback.agentName}] ${feedback.category}: ${feedback.suggestedChange}`
ChangeDescription(f) ==
  <<"[", f.agentName, "] ", f.category, ": ", f.suggestedChange>>

\* AppliedChanges gone wrong: the loop runs over allFeedback
AppliedChangesOfAllFeedback(fb, nonConflicting) ==
  LET withChange == SelectSeq([i \in 1..Len(fb) |-> i],
                              LAMBDA i : fb[i].suggestedChange # NoChange)
  IN [n \in 1..Len(withChange) |-> ChangeDescription(fb[withChange[n]])]

\* the loop over nonConflicting: a description for each item that has a
\* suggestedChange
AppliedChanges(fb, nonConflicting) ==
  LET withChange == SelectSeq(nonConflicting, LAMBDA i : fb[i].suggestedChange # NoChange)
  IN [n \in 1..Len(withChange) |-> ChangeDescription(fb[withChange[n]])]

\* UnresolvedIssues gone wrong: the critical items are looked for among the
\* conflicts only
UnresolvedIssuesOfConflictsOnly(fb, conflicts) ==
  conflicts \o SelectSeq(conflicts, LAMBDA i : fb[i].severity = "critical")

\* [...conflicts, ...allFeedback.filter(f => f.severity === 'critical')]
UnresolvedIssues(fb, conflicts) ==
  conflicts \o SelectSeq([i \in 1..Len(fb) |-> i], LAMBDA i : fb[i].severity = "critical")

\* context.consensusReached
ConsensusReached(fb, unresolvedIssues) ==
  Len(unresolvedIssues) = 0 /\ ~(\E i \in 1..Len(fb) : fb[i].feedbackType = "blocker")

\* success: context.consensusReached || unresolvedIssues.length === 0
Success(consensus, unresolvedIssues) ==
  consensus \/ Len(unresolvedIssues) = 0

\* const updatedCurriculum = { ...curriculum }: a new object with the input's
\* own fields; phases is the input's array
shallowCopy(curriculum) == [field \in DOMAIN curriculum |-> curriculum[field]]

\* the loop over nonConflicting gone wrong: it appends each suggested change
\* to the phases, the array both objects share
applyNonConflictingInPlace(curriculum, updatedCurriculum, fb, nonConflicting) ==
  LET changed == SelectSeq(nonConflicting, LAMBDA i : fb[i].suggestedChange # NoChange)
      phases == updatedCurriculum.phases \o [n \in 1..Len(changed) |-> 0]
  IN [input |-> [curriculum EXCEPT !.phases = phases],
      updated |-> [updatedCurriculum EXCEPT !.phases = phases]]

\* the loop over nonConflicting: it pushes descriptions and assigns to
\* neither the input nor the copy
applyNonConflicting(curriculum, updatedCurriculum, fb, nonConflicting) ==
  [input |-> curriculum, updated |-> updatedCurriculum]

\* the caller's curriculum object once mergeFeedback has returned
curriculumAfterMerge(curriculum, fb) ==
  applyNonConflicting(curriculum, shallowCopy(curriculum), fb,
                      detectConflicts(fb).nonConflicting).input

mergeFeedback(curriculum, fb) ==
  LET split == detectConflicts(fb)
      unresolvedIssues == UnresolvedIssues(fb, split.conflicts)
      consensus == ConsensusReached(fb, unresolvedIssues)
  IN [success |-> Success(consensus, unresolvedIssues),
      finalCurriculum |->
        applyNonConflicting(curriculum, shallowCopy(curriculum), fb, split.nonConflicting).updated,
      allFeedback |-> fb,
      appliedChanges |-> AppliedChanges(fb, split.nonConflicting),
      unresolvedIssues |-> unresolvedIssues,
      returned |-> TRUE]

(***************************************************************************)
(* The Session Manager (core/session.ts).  A Session object is a record on *)
(* the heap `sessions`; a reference to it is its index.  An optional field  *)
(* (endedAt, handoff) is a sequence of length 0 or 1.                      *)
(***************************************************************************)
\* currentSession = null
NoSession == 0

\* the clock when the process starts: 23:59:30 of day 0, so that a session
\* can run past midnight
ClockStart == 86370000

\* one advance of the clock: half a minute
TickMs == 30000

\* milliseconds in a day, and in a minute (1000 * 60)
DayMs == 86400000
MinuteMs == 60000

\* .substring(0, 30)
SlugLength == 30

Digits == {"0", "1", "2", "3", "4", "5", "6", "7", "8", "9"}

\* the title of the curriculum of the project
CurriculumTitle ==
  <<"I", "n", "t", "r", "o", " ", "t", "o", " ", "T", "e", "s", "t", "i",
    "n", "g">>

\* the curriculum of the project: phase 1 is open, phase 2 is locked and
\* there is no phase 3
SessionCurriculum ==
  [id |-> "c1",
   title |-> CurriculumTitle,
   phases |->
     << [id |-> "p1", number |-> 1, title |-> "First tests", status |-> "available",
         beadsEpicId |-> <<"bd-e1">>,
         objectives |-> << [id |-> "o1", description |-> "Write a test"],
                           [id |-> "o2", description |-> "Run the suite"],
                           [id |-> "o3", description |-> "Read a failure"] >>,
         deliverables |-> << [id |-> "d1", title |-> "Test file", beadsTaskId |-> <<"bd-t1">>],
                             [id |-> "d2", title |-> "Test report", beadsTaskId |-> <<"bd-t2">>] >>],
        [id |-> "p2", number |-> 2, title |-> "Mocks", status |-> "locked",
         beadsEpicId |-> <<>>,
         objectives |-> << [id |-> "o4", description |-> "Stub a call"] >>,
         deliverables |-> << [id |-> "d3", title |-> "Mocked client", beadsTaskId |-> <<>>] >>] >>]

\* the phase numbers a caller asks for
PhaseNumbers == {1, 3}

CurriculumPath == ".groot/curriculum.json"

\* the ids a caller marks complete, the notes and the questions it records
ObjectiveIds == {"o1"}
DeliverableIds == {"d1"}
Notes == {"mocks next"}
Questions == {"why stubs?"}

\* curriculum.phases.find(p => p.number === phaseNumber): the phases found
PhasesNumbered(curr, phaseNumber) ==
  SelectSeq(curr.phases, LAMBDA ph : ph.number = phaseNumber)

\* .replace(/[^a-z0-9]+/g, '-') on the first n characters of s
RECURSIVE replaceNonAlnum(_, _)
replaceNonAlnum(s, n) ==
  IF n = 0 THEN <<>>
  ELSE LET before == replaceNonAlnum(s, n - 1)
           alnum(c) == c \in Range(LowerCase) \cup Digits
       IN IF alnum(s[n]) THEN Append(before, s[n])
          ELSE IF n > 1 /\ ~alnum(s[n - 1]) THEN before
               ELSE Append(before, "-")

\* .replace(/^-|-$/g, '')
trimDashes(s) ==
  LET headless == IF Len(s) > 0 /\ s[1] = "-" THEN Tail(s) ELSE s
  IN IF Len(headless) > 0 /\ headless[Len(headless)] = "-"
     THEN SubSeq(headless, 1, Len(headless) - 1)
     ELSE headless

\* the slug of generateSessionFilename
slugOf(title) ==
  LET lower == toLowerCase(title)
      trimmed == trimDashes(replaceNonAlnum(lower, Len(lower)))
  IN SubSeq(trimmed, 1, IF Len(trimmed) < SlugLength THEN Len(trimmed) ELSE SlugLength)

\* the slug of the project's curriculum title
CurriculumSlug == slugOf(CurriculumTitle)

\* Date.prototype.toISOString: the date part and the time part
toISOString(ms) == [date |-> ms \div DayMs, time |-> ms % DayMs]

\* new Date(isoString)
parseDate(iso) == iso.date * DayMs + iso.time

\* generateSessionFilename: `${date}-${slug}-phase-${phaseNumber}.json`,
\* date being the day of new Date()
generateSessionFilename(title, phaseNumber, clock) ==
  <<toISOString(clock).date, "-",
    IF title = CurriculumTitle THEN CurriculumSlug ELSE slugOf(title),
    "-phase-", phaseNumber, ".json">>

\* Math.round((end - start) / (1000 * 60))
timeSpentMinutes(start, end) == (2 * (end - start) + MinuteMs) \div (2 * MinuteMs)

\* the Session object startSession builds
NewSession(curr, phaseNumber, phase, id, clock) ==
  [id |-> id,
   curriculumId |-> curr.id,
   curriculumPath |-> "",
   curriculumTitle |-> curr.title,
   phaseNumber |-> phaseNumber,
   phaseTitle |-> phase.title,
   phaseId |-> phase.id,
   startedAt |-> clock,
   endedAt |-> <<>>,
   status |-> "active",
   notes |-> <<>>,
   questionsAsked |-> <<>>,
   progress |-> [objectivesCompleted |-> <<>>, deliverablesCompleted |-> <<>>,
                 timeSpentMinutes |-> 0],
   handoff |-> <<>>]

\* `Phase ${phaseNumber} not found in curriculum`
PhaseNotFound(phaseNumber) == <<"Phase ", phaseNumber, " not found in curriculum">>

\* startSession gone wrong: the register is reset before the phase is
\* looked up
startSessionRegisteringFirst(curr, phaseNumber, heap, register, clock) ==
  LET found == PhasesNumbered(curr, phaseNumber)
      ref == Len(heap) + 1
  IN IF Len(found) = 0
     THEN [threw |-> PhaseNotFound(phaseNumber), heap |-> heap, register |-> NoSession,
           session |-> NoSession]
     ELSE [threw |-> <<>>,
           heap |-> Append(heap, NewSession(curr, phaseNumber, found[1], ref, clock)),
           register |-> ref, session |-> ref]

\* startSession(curriculum, phaseNumber): what it throws, the heap and the
\* register after it, and the session it returns
startSession(curr, phaseNumber, heap, register, clock) ==
  LET found == PhasesNumbered(curr, phaseNumber)
      ref == Len(heap) + 1
  IN IF Len(found) = 0
     THEN [threw |-> PhaseNotFound(phaseNumber), heap |-> heap, register |-> register,
           session |-> NoSession]
     ELSE [threw |-> <<>>,
           heap |-> Append(heap, NewSession(curr, phaseNumber, found[1], ref, clock)),
           register |-> ref, session |-> ref]

\* saveSession: the session after the time spent is recomputed
recomputeTimeSpent(session) ==
  IF Len(session.endedAt) > 0
  THEN [session EXCEPT !.progress.timeSpentMinutes =
                         timeSpentMinutes(session.startedAt, session.endedAt[1])]
  ELSE session

\* JSON.stringify(session): the dates become ISO strings
serialize(session) ==
  [session EXCEPT !.startedAt = toISOString(@),
                  !.endedAt = IF Len(@) > 0 THEN <<toISOString(@[1])>> ELSE <<>>]

\* the content of a file of the sessions directory that JSON.parse rejects
NotJson == [syntaxError |-> "Unexpected token"]

\* a file of the sessions directory that holds no session
StrayFile == <<"notes.json">>

\* JSON.parse(content) returns for the file
Readable(data) == "id" \in DOMAIN data

\* loadSession gone wrong: endedAt is not restored
deserializeWithoutEndedAt(data) ==
  [data EXCEPT !.startedAt = parseDate(@),
               !.endedAt = <<>>]

\* loadSession: JSON.parse, then the dates restored
deserialize(data) ==
  [data EXCEPT !.startedAt = parseDate(@),
               !.endedAt = IF Len(@) > 0 THEN <<parseDate(@[1])>> ELSE <<>>]

\* endSession gone wrong: the status is left as it was
sealedButActive(session, handoff, clock) ==
  [session EXCEPT !.endedAt = <<clock>>,
                  !.handoff = <<handoff>>,
                  !.progress.timeSpentMinutes = timeSpentMinutes(session.startedAt, clock)]

\* endSession gone wrong: the session is closed as abandoned
sealedAsAbandoned(session, handoff, clock) ==
  [session EXCEPT !.endedAt = <<clock>>,
                  !.status = "abandoned",
                  !.handoff = <<handoff>>,
                  !.progress.timeSpentMinutes = timeSpentMinutes(session.startedAt, clock)]

\* endSession: the session with endedAt, status, handoff and time spent set
sealed(session, handoff, clock) ==
  [session EXCEPT !.endedAt = <<clock>>,
                  !.status = "completed",
                  !.handoff = <<handoff>>,
                  !.progress.timeSpentMinutes = timeSpentMinutes(session.startedAt, clock)]

\* pushIfAbsent gone wrong: the id is pushed without looking
pushAlways(array, id) == Append(array, id)

\* if (!array.includes(id)) array.push(id)
pushIfAbsent(array, id) == IF id \in Range(array) THEN array ELSE Append(array, id)

\* additionalNotes left out, or empty: a string is the sequence of the
\* pieces it is put together from
NoNotes == <<>>

\* nextStepsOf gone wrong: the objective is pushed before the deliverable
nextStepsObjectiveFirst(session, remainingObjectives, remainingDeliverables) ==
  (IF Len(remainingObjectives) > 0
   THEN << <<"Focus on: ", remainingObjectives[1].description>> >> ELSE <<>>)
  \o (IF Len(remainingDeliverables) > 0
      THEN << <<"Start with: ", remainingDeliverables[1].title>> >> ELSE <<>>)
  \o (IF Len(session.notes) > 0
      THEN << <<"Review notes from last session">> >> ELSE <<>>)

\* generateHandoff: const nextSteps and the three pushes
nextStepsOf(session, remainingObjectives, remainingDeliverables) ==
  (IF Len(remainingDeliverables) > 0
   THEN << <<"Start with: ", remainingDeliverables[1].title>> >> ELSE <<>>)
  \o (IF Len(remainingObjectives) > 0
      THEN << <<"Focus on: ", remainingObjectives[1].description>> >> ELSE <<>>)
  \o (IF Len(session.notes) > 0
      THEN << <<"Review notes from last session">> >> ELSE <<>>)

\* promptSuffix gone wrong: the two suffixes add up
promptSuffixCumulative(remainingObjectives, remainingDeliverables) ==
  (IF Len(remainingDeliverables) > 0
   THEN <<". Focus on: ", remainingDeliverables[1].title>> ELSE <<>>)
  \o (IF Len(remainingObjectives) > 0
      THEN <<". Complete: ", remainingObjectives[1].description>> ELSE <<>>)

\* generateHandoff: what is appended to promptForNextSession
promptSuffix(remainingObjectives, remainingDeliverables) ==
  (IF Len(remainingDeliverables) > 0
   THEN <<". Focus on: ", remainingDeliverables[1].title>> ELSE <<>>)
  \o (IF Len(remainingObjectives) > 0 /\ Len(remainingDeliverables) = 0
      THEN <<". Complete: ", remainingObjectives[1].description>> ELSE <<>>)

\* generateHandoff gone wrong: the summary counts the ids in session.progress
generateHandoffCountingProgress(session, phase, additionalNotes) ==
  LET done(list, ids) == SelectSeq(list, LAMBDA x : x.id \in Range(ids))
      left(list, ids) == SelectSeq(list, LAMBDA x : x.id \notin Range(ids))
      completedObjectives == done(phase.objectives, session.progress.objectivesCompleted)
      remainingObjectives == left(phase.objectives, session.progress.objectivesCompleted)
      completedDeliverables == done(phase.deliverables, session.progress.deliverablesCompleted)
      remainingDeliverables == left(phase.deliverables, session.progress.deliverablesCompleted)
      completedWork ==
        [n \in 1..Len(completedObjectives) |-> <<completedObjectives[n].description>>]
        \o [n \in 1..Len(completedDeliverables) |->
              <<"Completed: ", completedDeliverables[n].title>>]
      remainingWork ==
        [n \in 1..Len(remainingObjectives) |-> <<remainingObjectives[n].description>>]
        \o [n \in 1..Len(remainingDeliverables) |-> <<remainingDeliverables[n].title>>]
      nextSteps == nextStepsOf(session, remainingObjectives, remainingDeliverables)
      summary ==
        <<"Session on Phase ", session.phaseNumber, ": ", session.phaseTitle, ". ",
          "Completed ", Len(session.progress.objectivesCompleted), "/", Len(phase.objectives),
          " objectives", ", ", Len(session.progress.deliverablesCompleted), "/", Len(phase.deliverables),
          " deliverables", ". ">>
        \o (IF additionalNotes # NoNotes THEN additionalNotes ELSE <<>>)
      promptForNextSession ==
        <<"Resume Phase ", session.phaseNumber, " - ", session.phaseTitle>>
        \o promptSuffix(remainingObjectives, remainingDeliverables)
  IN [summary |-> summary, completedWork |-> completedWork,
      remainingWork |-> remainingWork, nextSteps |-> nextSteps,
      promptForNextSession |-> promptForNextSession]

\* generateHandoff(session, phase, additionalNotes)
generateHandoff(session, phase, additionalNotes) ==
  LET done(list, ids) == SelectSeq(list, LAMBDA x : x.id \in Range(ids))
      left(list, ids) == SelectSeq(list, LAMBDA x : x.id \notin Range(ids))
      completedObjectives == done(phase.objectives, session.progress.objectivesCompleted)
      remainingObjectives == left(phase.objectives, session.progress.objectivesCompleted)
      completedDeliverables == done(phase.deliverables, session.progress.deliverablesCompleted)
      remainingDeliverables == left(phase.deliverables, session.progress.deliverablesCompleted)
      completedWork ==
        [n \in 1..Len(completedObjectives) |-> <<completedObjectives[n].description>>]
        \o [n \in 1..Len(completedDeliverables) |->
              <<"Completed: ", completedDeliverables[n].title>>]
      remainingWork ==
        [n \in 1..Len(remainingObjectives) |-> <<remainingObjectives[n].description>>]
        \o [n \in 1..Len(remainingDeliverables) |-> <<remainingDeliverables[n].title>>]
      nextSteps == nextStepsOf(session, remainingObjectives, remainingDeliverables)
      summary ==
        <<"Session on Phase ", session.phaseNumber, ": ", session.phaseTitle, ". ",
          "Completed ", Len(completedObjectives), "/", Len(phase.objectives),
          " objectives", ", ", Len(completedDeliverables), "/", Len(phase.deliverables),
          " deliverables", ". ">>
        \o (IF additionalNotes # NoNotes THEN additionalNotes ELSE <<>>)
      promptForNextSession ==
        <<"Resume Phase ", session.phaseNumber, " - ", session.phaseTitle>>
        \o promptSuffix(remainingObjectives, remainingDeliverables)
  IN [summary |-> summary, completedWork |-> completedWork,
      remainingWork |-> remainingWork, nextSteps |-> nextSteps,
      promptForNextSession |-> promptForNextSession]

\* session.notes.join('; ')
RECURSIVE joinNotes(_)
joinNotes(notes) ==
  IF Len(notes) = 0 THEN NoNotes
  ELSE IF Len(notes) = 1 THEN <<notes[1]>>
  ELSE joinNotes(SubSeq(notes, 1, Len(notes) - 1)) \o <<"; ", notes[Len(notes)]>>

\* the phase of the project's curriculum a session is bound to
PhaseOfSession(session) == PhasesNumbered(SessionCurriculum, session.phaseNumber)[1]

\* the handoffs a caller passes to endSession: generateHandoff's, without
\* additional notes (wake) or with the joined notes (rest)
HandoffsFor(session) ==
  { generateHandoff(session, PhaseOfSession(session), extra) :
      extra \in {NoNotes, joinNotes(session.notes)} }

\* a call of the session module: the operation, the session it was given or
\* has returned, the error it threw (none: <<>>), and its other arguments
\* and results
Call(op, ref, threw, detail) ==
  [op |-> op, session |-> ref, threw |-> threw, detail |-> detail]

Refs == 1..Len(sessions)

(***************************************************************************)
(* The operations of the session module, called in one process.            *)
(***************************************************************************)
\* one more call of the session module
Called == calls + ticks < MaxSteps /\ calls' = calls + 1

\* startSession(curriculum, phaseNumber)
StartSession ==
  /\ Len(sessions) < MaxSessions
  /\ \E phaseNumber \in PhaseNumbers :
       LET out == startSession(SessionCurriculum, phaseNumber, sessions, currentSession, now)
       IN /\ sessions' = out.heap
          /\ currentSession' = out.register
          /\ lastCall' = Call("startSession", out.session, out.threw, <<phaseNumber>>)
  /\ Called /\ UNCHANGED <<disk, now, ticks>>
  /\ UNCHANGED mergeVars /\ UNCHANGED orchVars

\* startSessionFromPath(curriculumPath, curriculum, phaseNumber)
StartSessionFromPath ==
  /\ Len(sessions) < MaxSessions
  /\ \E phaseNumber \in PhaseNumbers :
       LET out == startSession(SessionCurriculum, phaseNumber, sessions, currentSession, now)
       IN IF Len(out.threw) > 0
          THEN /\ sessions' = out.heap
               /\ currentSession' = out.register
               /\ lastCall' = Call("startSessionFromPath", NoSession, out.threw, <<phaseNumber>>)
          ELSE /\ sessions' = [out.heap EXCEPT ![out.session].curriculumPath = CurriculumPath]
               /\ currentSession' = out.session
               /\ lastCall' = Call("startSessionFromPath", out.session, <<>>, <<phaseNumber>>)
  /\ Called /\ UNCHANGED <<disk, now, ticks>>
  /\ UNCHANGED mergeVars /\ UNCHANGED orchVars

\* setCurrentSession(session), with a session or null
SetCurrentSession ==
  /\ \E ref \in Refs \cup {NoSession} :
       /\ currentSession' = ref
       /\ lastCall' = Call("setCurrentSession", ref, <<>>, <<>>)
  /\ Called /\ UNCHANGED <<sessions, disk, now, ticks>>
  /\ UNCHANGED mergeVars /\ UNCHANGED orchVars

\* saveSession(session); the write may fail
SaveSession ==
  /\ \E ref \in Refs :
       LET saved == recomputeTimeSpent(sessions[ref])
           filename == generateSessionFilename(saved.curriculumTitle, saved.phaseNumber, now)
       IN /\ sessions' = [sessions EXCEPT ![ref] = saved]
          /\ \/ /\ disk' = (filename :> serialize(saved)) @@ disk
                /\ lastCall' = Call("saveSession", ref, <<>>, filename)
             \/ /\ disk' = disk
                /\ lastCall' = Call("saveSession", ref, <<"EACCES">>, <<>>)
  /\ Called /\ UNCHANGED <<currentSession, now, ticks>>
  /\ UNCHANGED mergeVars /\ UNCHANGED orchVars

\* loadSession(sessionPath) of a file of the sessions directory
LoadSession ==
  /\ Len(sessions) < MaxSessions
  /\ \E filename \in DOMAIN disk :
       IF Readable(disk[filename])
       THEN /\ sessions' = Append(sessions, deserialize(disk[filename]))
            /\ lastCall' = Call("loadSession", Len(sessions) + 1, <<>>, filename)
       ELSE /\ sessions' = sessions
            /\ lastCall' = Call("loadSession", NoSession, <<NotJson.syntaxError>>, filename)
  /\ Called /\ UNCHANGED <<currentSession, disk, now, ticks>>
  /\ UNCHANGED mergeVars /\ UNCHANGED orchVars

\* endSession(session, handoff); the write of saveSession may fail
\* endSession gone wrong: the register is cleared only when it holds the
\* session that is ended
EndSessionClearingItsOwn ==
  /\ \E ref \in Refs :
       \E handoff \in HandoffsFor(sessions[ref]) :
         LET ended == recomputeTimeSpent(sealed(sessions[ref], handoff, now))
             filename == generateSessionFilename(ended.curriculumTitle, ended.phaseNumber, now)
         IN /\ sessions' = [sessions EXCEPT ![ref] = ended]
            /\ \/ /\ disk' = (filename :> serialize(ended)) @@ disk
                  /\ currentSession' = IF currentSession = ref THEN NoSession
                                       ELSE currentSession
                  /\ lastCall' = Call("endSession", ref, <<>>, <<filename, handoff>>)
               \/ /\ disk' = disk
                  /\ currentSession' = currentSession
                  /\ lastCall' = Call("endSession", ref, <<"EACCES">>, <<>>)
  /\ Called /\ UNCHANGED <<now, ticks>>
  /\ UNCHANGED mergeVars /\ UNCHANGED orchVars

EndSession ==
  /\ \E ref \in Refs :
       \E handoff \in HandoffsFor(sessions[ref]) :
         LET ended == recomputeTimeSpent(sealed(sessions[ref], handoff, now))
             filename == generateSessionFilename(ended.curriculumTitle, ended.phaseNumber, now)
         IN /\ sessions' = [sessions EXCEPT ![ref] = ended]
            /\ \/ /\ disk' = (filename :> serialize(ended)) @@ disk
                  /\ currentSession' = NoSession
                  /\ lastCall' = Call("endSession", ref, <<>>, <<filename, handoff>>)
               \/ /\ disk' = disk
                  /\ currentSession' = currentSession
                  /\ lastCall' = Call("endSession", ref, <<"EACCES">>, <<>>)
  /\ Called /\ UNCHANGED <<now, ticks>>
  /\ UNCHANGED mergeVars /\ UNCHANGED orchVars

\* markObjectiveComplete(session, objectiveId)
MarkObjectiveComplete ==
  /\ \E ref \in Refs :
       \E id \in ObjectiveIds :
         /\ sessions' = [sessions EXCEPT ![ref].progress.objectivesCompleted =
                                           pushIfAbsent(@, id)]
         /\ lastCall' = Call("markObjectiveComplete", ref, <<>>,
                             <<id, id \in Range(sessions[ref].progress.objectivesCompleted)>>)
  /\ Called /\ UNCHANGED <<currentSession, disk, now, ticks>>
  /\ UNCHANGED mergeVars /\ UNCHANGED orchVars

\* markDeliverableComplete(session, deliverableId)
MarkDeliverableComplete ==
  /\ \E ref \in Refs :
       \E id \in DeliverableIds :
         /\ sessions' = [sessions EXCEPT ![ref].progress.deliverablesCompleted =
                                           pushIfAbsent(@, id)]
         /\ lastCall' = Call("markDeliverableComplete", ref, <<>>,
                             <<id, id \in Range(sessions[ref].progress.deliverablesCompleted)>>)
  /\ Called /\ UNCHANGED <<currentSession, disk, now, ticks>>
  /\ UNCHANGED mergeVars /\ UNCHANGED orchVars

\* addSessionNote(session, note)
AddSessionNote ==
  /\ \E ref \in Refs :
       /\ Len(sessions[ref].notes) < MaxNotes
       /\ \E note \in Notes :
            sessions' = [sessions EXCEPT ![ref].notes = Append(@, note)]
       /\ lastCall' = Call("addSessionNote", ref, <<>>, <<>>)
  /\ Called /\ UNCHANGED <<currentSession, disk, now, ticks>>
  /\ UNCHANGED mergeVars /\ UNCHANGED orchVars

\* addQuestionAsked(session, question)
AddQuestionAsked ==
  /\ \E ref \in Refs :
       /\ Len(sessions[ref].questionsAsked) < MaxNotes
       /\ \E question \in Questions :
            sessions' = [sessions EXCEPT ![ref].questionsAsked = Append(@, question)]
       /\ lastCall' = Call("addQuestionAsked", ref, <<>>, <<>>)
  /\ Called /\ UNCHANGED <<currentSession, disk, now, ticks>>
  /\ UNCHANGED mergeVars /\ UNCHANGED orchVars

\* generateHandoff gone wrong: the handoff is attached to the session
GenerateHandoffAttaching ==
  /\ \E ref \in Refs :
       \E extra \in {NoNotes, joinNotes(sessions[ref].notes)} :
         LET handoff == generateHandoff(sessions[ref], PhaseOfSession(sessions[ref]), extra)
         IN /\ lastCall' = Call("generateHandoff", ref, <<>>, <<handoff, extra>>)
            /\ sessions' = [sessions EXCEPT ![ref].handoff = <<handoff>>]
  /\ Called /\ UNCHANGED <<currentSession, disk, now, ticks>>
  /\ UNCHANGED mergeVars /\ UNCHANGED orchVars

\* generateHandoff(session, phase, additionalNotes)
GenerateHandoff ==
  /\ \E ref \in Refs :
       \E extra \in {NoNotes, joinNotes(sessions[ref].notes)} :
         LET handoff == generateHandoff(sessions[ref], PhaseOfSession(sessions[ref]), extra)
         IN lastCall' = Call("generateHandoff", ref, <<>>, <<handoff, extra>>)
  /\ Called /\ UNCHANGED <<sessions, currentSession, disk, now, ticks>>
  /\ UNCHANGED mergeVars /\ UNCHANGED orchVars

\* time passes
Tick ==
  /\ ticks < MaxTicks
  /\ calls + ticks < MaxSteps
  /\ now' = now + TickMs
  /\ ticks' = ticks + 1
  /\ UNCHANGED <<sessions, currentSession, disk, calls, lastCall>>
  /\ UNCHANGED mergeVars /\ UNCHANGED orchVars

(***************************************************************************)
(* The sessions directory read back: loadSession, listSessions and         *)
(* findActiveSession.                                                      *)
(***************************************************************************)
\* listSessions(curriculumId) called without an argument
AnyCurriculum == ""

\* the curriculum ids a caller passes to listSessions
CurriculumIds == {AnyCurriculum, "c1", "c2"}

\* readdir(dir): the files of the directory in the order the file system
\* yields them, which the code does not choose
ReaddirOrders(d) ==
  {files \in [1..Cardinality(DOMAIN d) -> DOMAIN d] :
     \A i, j \in 1..Cardinality(DOMAIN d) : i # j => files[i] # files[j]}

\* the for loop of listSessions: the files that load, in readdir order, kept
\* when no curriculumId is given or it is the session's
loadedSessions(d, files, curriculumId) ==
  LET kept == SelectSeq(files,
                LAMBDA f : /\ Readable(d[f])
                           /\ (curriculumId = AnyCurriculum \/ d[f].curriculumId = curriculumId))
  IN [n \in 1..Len(kept) |-> deserialize(d[kept[n]])]

\* listSessions gone wrong: the list is returned in readdir order
unsortedSessions(list) == list

\* sessions.sort((a, b) => b.startedAt.getTime() - a.startedAt.getTime()):
\* a stable sort, most recent first
RECURSIVE sortSessions(_)
sortSessions(list) ==
  IF Len(list) = 0 THEN <<>>
  ELSE LET before == sortSessions(SubSeq(list, 1, Len(list) - 1))
           last == list[Len(list)]
           ahead == Cardinality({n \in 1..Len(before) : before[n].startedAt >= last.startedAt})
       IN SubSeq(before, 1, ahead) \o <<last>> \o SubSeq(before, ahead + 1, Len(before))

\* listSessions(curriculumId)
listSessions(d, files, curriculumId) == sortSessions(loadedSessions(d, files, curriculumId))

\* findActiveSession(): sessions.find(s => s.status === 'active') || null,
\* as a sequence of length 0 or 1
findActiveSession(d, files) ==
  LET active == SelectSeq(listSessions(d, files, AnyCurriculum), LAMBDA x : x.status = "active")
  IN IF Len(active) = 0 THEN <<>> ELSE <<active[1]>>

\* listSessions(curriculumId)
ListSessions ==
  /\ \E files \in ReaddirOrders(disk) :
       \E curriculumId \in CurriculumIds :
         lastCall' = Call("listSessions", NoSession, <<>>,
                          <<curriculumId, listSessions(disk, files, curriculumId)>>)
  /\ Called /\ UNCHANGED <<sessions, currentSession, disk, now, ticks>>
  /\ UNCHANGED mergeVars /\ UNCHANGED orchVars

\* findActiveSession()
FindActiveSession ==
  /\ \E files \in ReaddirOrders(disk) :
       lastCall' = Call("findActiveSession", NoSession, <<>>, findActiveSession(disk, files))
  /\ Called /\ UNCHANGED <<sessions, currentSession, disk, now, ticks>>
  /\ UNCHANGED mergeVars /\ UNCHANGED orchVars

\* the session module when the process starts, with an empty sessions
\* directory
InitSessionVars ==
  /\ sessions = <<>>
  /\ currentSession = NoSession
  /\ disk = <<>>
  /\ now = ClockStart
  /\ ticks = 0
  /\ calls = 0
  /\ lastCall = Call("none", NoSession, <<>>, <<>>)

\* the orchestrator before orchestrateGrow is called
\* orchestrateGrow has not been called: no topic yet
NoTopic == [topic |-> ""]

\* the topic of a run that generates
Topics == {[topic |-> "Building REST APIs"]}

\* no run of orchestrateGrow yet; curriculum is the Curriculum object a
\* caller of mergeFeedback holds
InitOrchVarsWith(curriculum) ==
  /\ orchPc = "idle"
  /\ fromFile = FALSE
  /\ topicOrFile = NoTopic
  /\ events = <<>>
  /\ agentCalls = [a \in {"seedling", "canopy", "bark"} |-> 0]
  /\ inFlight = {}
  /\ orchCurriculum = curriculum
  /\ technicalFeedback = <<>>
  /\ pedagogicalFeedback = <<>>
  /\ orchError = "none"

InitOrchVars == InitOrchVarsWith("none")

(***************************************************************************)
(* SpecMerge: a caller assembles a feedback list and calls mergeFeedback.  *)
(***************************************************************************)
InitMerge ==
  /\ feedbackIn = <<>>
  /\ mergeResult = NoResult
  /\ consensusReached = FALSE
  /\ InitOrchVarsWith(SampleCurriculum)
  /\ InitSessionVars

\* the caller appends one feedback item to the list it will pass
CollectFeedback ==
  /\ ~mergeResult.returned
  /\ Len(feedbackIn) < MaxFeedback
  /\ \E f \in FeedbackItems : feedbackIn' = Append(feedbackIn, f)
  /\ UNCHANGED <<mergeResult, consensusReached>>
  /\ UNCHANGED orchVars
  /\ UNCHANGED sessionVars

\* orchestrator.mergeFeedback(curriculum, feedbackIn, context)
MergeFeedback ==
  /\ ~mergeResult.returned
  /\ mergeResult' = mergeFeedback(orchCurriculum, feedbackIn)
  /\ orchCurriculum' = curriculumAfterMerge(orchCurriculum, feedbackIn)
  /\ consensusReached' =
       ConsensusReached(feedbackIn,
                        UnresolvedIssues(feedbackIn, detectConflicts(feedbackIn).conflicts))
  /\ UNCHANGED feedbackIn
  /\ UNCHANGED <<orchPc, fromFile, topicOrFile, events, agentCalls, inFlight,
                 technicalFeedback, pedagogicalFeedback, orchError>>
  /\ UNCHANGED sessionVars

NextMerge == CollectFeedback \/ MergeFeedback

SpecMerge == InitMerge /\ [][NextMerge]_vars

(***************************************************************************)
(* The reviewers' tool handlers (agents/canopy.ts, agents/bark.ts).        *)
(***************************************************************************)
\* the concerns of a review_design tool input
CanopyConcerns ==
  [issue : {MsgUp, MsgDown, NoMessage}, severity : {"high", "critical"},
   suggestedFix : {"rework"}]

\* the concerns of a review_pedagogy tool input
BarkConcerns ==
  [issue : {MsgUp, MsgDown, NoMessage}, phaseNumber : {NoPhase, 1},
   severity : {"high", "critical"}, suggestedFix : {"rework"}]

\* the sequences over S of length at most n
SeqsUpTo(S, n) == UNION {[1..k -> S] : k \in 0..n}

\* review_design.execute gone wrong: a concern of high severity blocks too
ReviewDesignFeedbackBlockingOnHigh(concerns) ==
  [n \in 1..Len(concerns) |->
     Feedback("canopy",
              IF concerns[n].severity \in {"high", "critical"} THEN "blocker" ELSE "concern",
              "technical", "curriculum", NoPhase,
              concerns[n].issue, concerns[n].severity, concerns[n].suggestedFix)]

\* review_design.execute: review.concerns.map(...)
ReviewDesignFeedback(concerns) ==
  [n \in 1..Len(concerns) |->
     Feedback("canopy",
              IF concerns[n].severity = "critical" THEN "blocker" ELSE "concern",
              "technical", "curriculum", NoPhase,
              concerns[n].issue, concerns[n].severity, concerns[n].suggestedFix)]

\* review_pedagogy.execute: the concerns, then the progression feedback
ReviewPedagogyFeedback(concerns, progressionAssessment) ==
  [n \in 1..Len(concerns) |->
     Feedback("bark",
              IF concerns[n].severity = "critical" THEN "blocker" ELSE "concern",
              "pedagogical",
              IF concerns[n].phaseNumber # NoPhase THEN "phase" ELSE "curriculum",
              concerns[n].phaseNumber,
              concerns[n].issue, concerns[n].severity, concerns[n].suggestedFix)]
  \o
  (IF progressionAssessment # "appropriate"
   THEN << Feedback("bark", "concern", "pedagogical", "curriculum", NoPhase,
                    IF progressionAssessment = "too_fast" THEN MsgTooFast ELSE MsgTooSlow,
                    "medium",
                    IF progressionAssessment = "too_fast"
                    THEN "Add more scaffolding or break complex topics into smaller steps"
                    ELSE "Combine some phases or add more challenging deliverables") >>
   ELSE <<>>)

(***************************************************************************)
(* Orchestrator.orchestrateGrow: the four stages and the catch block.      *)
(***************************************************************************)
Stages == <<"generate", "technical-review", "pedagogical-review", "merge">>

\* the message of a rejected chat call (the API client's error)
ChatError == "Connection error."

\* loadCurriculum: the errors it throws
FileNotFound == "Curriculum file not found: "
MarkdownUnsupported == "Loading from markdown is not yet supported. Please provide a JSON file."
JsonSyntaxError == "Unexpected token"

\* generateCurriculum: the errors it throws
NoToolCalls == "Seedling did not generate a curriculum structure"
NoCurriculumTool == "Failed to extract curriculum from Seedling response"

\* f.message.toLowerCase() on a message that is undefined
ToLowerCaseOfUndefined == "Cannot read properties of undefined (reading 'toLowerCase')"

\* the files a fromFile run may be pointed at
CurriculumFiles == [exists : BOOLEAN, extension : {".json", ".md"}, wellFormed : BOOLEAN]

\* loadCurriculum gone wrong: the extension is looked at before the path
loadCurriculumByExtensionFirst(file) ==
  IF file.extension # ".json" THEN [error |-> MarkdownUnsupported]
  ELSE IF ~file.exists THEN [error |-> FileNotFound]
       ELSE IF file.wellFormed THEN [error |-> "none", curriculum |-> SampleCurriculum]
            ELSE [error |-> JsonSyntaxError]

\* loadCurriculum(filePath)
loadCurriculum(file) ==
  IF ~file.exists THEN [error |-> FileNotFound]
  ELSE IF file.extension = ".json"
       THEN IF file.wellFormed THEN [error |-> "none", curriculum |-> SampleCurriculum]
            ELSE [error |-> JsonSyntaxError]
       ELSE [error |-> MarkdownUnsupported]

\* what seedling.chat may come back with
SeedlingResponses == {"rejected", "no tool calls", "another tool", "no output", "structure"}

\* generateCurriculum(topic, context)
generateCurriculum(response) ==
  CASE response = "rejected" -> [error |-> ChatError]
    [] response = "no tool calls" -> [error |-> NoToolCalls]
    [] response \in {"another tool", "no output"} -> [error |-> NoCurriculumTool]
    [] OTHER -> [error |-> "none", curriculum |-> SampleCurriculum]

\* a scan list.some(f => words.some(word => f.message.toLowerCase()...))
\* reaches an item without a message before it finds a match
ScanThrows(fb, list, messageWants) ==
  \E n \in 1..Len(list) :
    /\ fb[list[n]].message = NoMessage
    /\ \A k \in 1..(n - 1) :
         /\ fb[list[k]].message # NoMessage
         /\ ~messageWants[fb[list[k]].message]

\* mergeFeedback raises: one of the four scans of some group does
mergeFeedbackThrows(fb) ==
  \E i \in 1..Len(fb) :
    \E agent \in {"canopy", "bark"} :
      LET list == ByAgent(fb, GroupOf(fb, TargetKey(fb[i])), agent)
      IN ScanThrows(fb, list, MessageWantsMore) \/ ScanThrows(fb, list, MessageWantsLess)

\* what each stage can raise
StageFailures(stage) ==
  CASE stage = "generate" ->
         {FileNotFound, MarkdownUnsupported, JsonSyntaxError,
          ChatError, NoToolCalls, NoCurriculumTool}
    [] stage = "technical-review" -> {ChatError}
    [] stage = "pedagogical-review" -> {ChatError}
    [] OTHER -> {ToLowerCaseOfUndefined}

\* OrchestrationError gone wrong: the cause is rethrown as it is
RethrownError(cause) == <<cause>>

\* throw new Error(`Orchestration failed: ${errorMessage}`)
OrchestrationError(cause) == <<"Orchestration failed: ", cause>>

\* StageAgents gone wrong: the two reviews are started together
StageAgentsFannedOut(stage, ff) ==
  CASE stage = "generate" -> IF ff THEN {} ELSE {"seedling"}
    [] stage = "technical-review" -> {"canopy", "bark"}
    [] OTHER -> {}

\* the agent a stage invokes when it starts
StageAgents(stage, ff) ==
  CASE stage = "generate" -> IF ff THEN {} ELSE {"seedling"}
    [] stage = "technical-review" -> {"canopy"}
    [] stage = "pedagogical-review" -> {"bark"}
    [] OTHER -> {}

\* this.callbacks.onPhaseStart?.(stage), then the stage's call
StartStage(stage, ff, firedBefore) ==
  /\ events' = Append(firedBefore, <<"onPhaseStart", stage>>)
  /\ agentCalls' = [a \in DOMAIN agentCalls |->
                      IF a \in StageAgents(stage, ff) THEN agentCalls[a] + 1
                      ELSE agentCalls[a]]
  /\ inFlight' = StageAgents(stage, ff)
  /\ orchPc' = stage

\* this.callbacks.onPhaseComplete?.(done, true), then the next stage starts
NextStage(done, next) ==
  StartStage(next, fromFile, Append(events, <<"onPhaseComplete", done, TRUE>>))

\* the catch block: the awaited call has thrown
Catch(cause) ==
  /\ orchPc' = "failed"
  /\ orchError' = OrchestrationError(cause)
  /\ inFlight' = {}
  /\ UNCHANGED <<events, agentCalls>>

\* orchestrateGrow(topicOrFile, options) is called
OrchestrateGrow ==
  /\ orchPc = "idle"
  /\ \E ff \in BOOLEAN :
       /\ fromFile' = ff
       /\ topicOrFile' \in IF ff THEN CurriculumFiles ELSE Topics
       /\ StartStage("generate", ff, events)
  /\ UNCHANGED <<orchCurriculum, technicalFeedback, pedagogicalFeedback, orchError>>
  /\ UNCHANGED mergeVars
  /\ UNCHANGED sessionVars

\* step 1 returns: loadCurriculum or generateCurriculum
GenerateReturns ==
  /\ orchPc = "generate"
  /\ \E got \in IF fromFile THEN {loadCurriculum(topicOrFile)}
                ELSE {generateCurriculum(r) : r \in SeedlingResponses} :
       \/ /\ got.error # "none"
          /\ Catch(got.error)
          /\ UNCHANGED orchCurriculum
       \/ /\ got.error = "none"
          /\ orchCurriculum' = got.curriculum
          /\ NextStage("generate", "technical-review")
          /\ UNCHANGED orchError
  /\ UNCHANGED <<fromFile, topicOrFile, technicalFeedback, pedagogicalFeedback>>
  /\ UNCHANGED mergeVars
  /\ UNCHANGED sessionVars

\* step 2 returns: canopy.reviewCurriculum
TechnicalReviewReturns ==
  /\ orchPc = "technical-review"
  /\ \/ /\ Catch(ChatError)
        /\ UNCHANGED technicalFeedback
     \/ /\ \E concerns \in SeqsUpTo(CanopyConcerns, MaxConcerns) :
             technicalFeedback' = ReviewDesignFeedback(concerns)
        /\ NextStage("technical-review", "pedagogical-review")
        /\ UNCHANGED orchError
  /\ UNCHANGED <<fromFile, topicOrFile, orchCurriculum, pedagogicalFeedback>>
  /\ UNCHANGED mergeVars
  /\ UNCHANGED sessionVars

\* step 3 returns: bark.reviewCurriculum
PedagogicalReviewReturns ==
  /\ orchPc = "pedagogical-review"
  /\ \/ /\ Catch(ChatError)
        /\ UNCHANGED pedagogicalFeedback
     \/ /\ \E concerns \in SeqsUpTo(BarkConcerns, MaxConcerns) :
             \E progression \in {"appropriate", "too_fast", "too_slow"} :
               pedagogicalFeedback' = ReviewPedagogyFeedback(concerns, progression)
        /\ NextStage("pedagogical-review", "merge")
        /\ UNCHANGED orchError
  /\ UNCHANGED <<fromFile, topicOrFile, orchCurriculum, technicalFeedback>>
  /\ UNCHANGED mergeVars
  /\ UNCHANGED sessionVars

\* step 4: mergeFeedback(curriculum, [...technical, ...pedagogical], context)
MergeReturns ==
  /\ orchPc = "merge"
  /\ LET all == technicalFeedback \o pedagogicalFeedback
     IN \/ /\ mergeFeedbackThrows(all)
           /\ Catch(ToLowerCaseOfUndefined)
           /\ UNCHANGED mergeVars
           /\ UNCHANGED orchCurriculum
        \/ /\ ~mergeFeedbackThrows(all)
           /\ mergeResult' = mergeFeedback(orchCurriculum, all)
           /\ orchCurriculum' = curriculumAfterMerge(orchCurriculum, all)
           /\ consensusReached' =
                ConsensusReached(all, UnresolvedIssues(all, detectConflicts(all).conflicts))
           /\ events' = Append(events, <<"onPhaseComplete", "merge", TRUE>>)
           /\ orchPc' = "returned"
           /\ UNCHANGED <<feedbackIn, agentCalls, inFlight, orchError>>
  /\ UNCHANGED <<fromFile, topicOrFile, technicalFeedback, pedagogicalFeedback>>
  /\ UNCHANGED sessionVars

NextOrch ==
  \/ OrchestrateGrow
  \/ GenerateReturns
  \/ TechnicalReviewReturns
  \/ PedagogicalReviewReturns
  \/ MergeReturns

InitOrch ==
  /\ feedbackIn = <<>>
  /\ mergeResult = NoResult
  /\ consensusReached = FALSE
  /\ InitOrchVars
  /\ InitSessionVars

SpecOrch == InitOrch /\ [][NextOrch]_vars

(***************************************************************************)
(* SpecSession: the session module called by one process.                  *)
(***************************************************************************)
InitSession ==
  /\ feedbackIn = <<>>
  /\ mergeResult = NoResult
  /\ consensusReached = FALSE
  /\ InitOrchVars
  /\ InitSessionVars

NextSession ==
  \/ StartSession
  \/ StartSessionFromPath
  \/ SetCurrentSession
  \/ SaveSession
  \/ LoadSession
  \/ EndSession
  \/ MarkObjectiveComplete
  \/ MarkDeliverableComplete
  \/ AddSessionNote
  \/ AddQuestionAsked
  \/ GenerateHandoff
  \/ ListSessions
  \/ FindActiveSession
  \/ Tick

SpecSession == InitSession /\ [][NextSession]_vars

(***************************************************************************)
(* SpecHandoff: generateHandoff applied to a session of phase 1 with any   *)
(* progress.                                                               *)
(***************************************************************************)
\* the ids a session's progress may hold: those of the phase's objectives
\* and deliverables, and one of neither
ProgressObjectiveIds == <<"o1", "o2", "o3", "o9">>
ProgressDeliverableIds == <<"d1", "d2", "d9">>

\* the sessions generateHandoff is applied to
HandoffSessions ==
  { [NewSession(SessionCurriculum, 1, SessionCurriculum.phases[1], 1, ClockStart)
       EXCEPT !.curriculumPath = CurriculumPath,
              !.progress.objectivesCompleted =
                 SelectSeq(ProgressObjectiveIds, LAMBDA id : id \in objectiveIds),
              !.progress.deliverablesCompleted =
                 SelectSeq(ProgressDeliverableIds, LAMBDA id : id \in deliverableIds),
              !.notes = notes] :
      objectiveIds \in SUBSET Range(ProgressObjectiveIds),
      deliverableIds \in SUBSET Range(ProgressDeliverableIds),
      notes \in {<<>>} \cup {<<note>> : note \in Notes} }

InitHandoff ==
  /\ feedbackIn = <<>>
  /\ mergeResult = NoResult
  /\ consensusReached = FALSE
  /\ InitOrchVars
  /\ \E session \in HandoffSessions : sessions = <<session>>
  /\ currentSession = 1
  /\ disk = <<>>
  /\ now = ClockStart
  /\ ticks = 0
  /\ calls = 0
  /\ lastCall = Call("none", NoSession, <<>>, <<>>)

NextHandoff ==
  \/ GenerateHandoff
  \/ Tick

SpecHandoff == InitHandoff /\ [][NextHandoff]_vars

(***************************************************************************)
(* SpecList: listSessions and findActiveSession applied to a sessions      *)
(* directory that earlier saves have filled.                               *)
(***************************************************************************)
\* the title of another curriculum
OtherTitle == <<"G", "o", " ", "b", "a", "s", "i", "c", "s">>

\* another curriculum whose sessions are in the directory
OtherCurriculum ==
  [id |-> "c2", title |-> OtherTitle, phases |-> SessionCurriculum.phases]

\* when the stored sessions were started and when their files were written
StoredTimes == {ClockStart - TickMs, ClockStart, ClockStart + TickMs}

\* the saves that have filled the directory: a session of phase 1 of one of
\* the curricula, saved as it started or saved later by endSession
StoredEntries ==
  {e \in [startedAt : StoredTimes, savedAt : StoredTimes,
          status : {"active", "completed"},
          curriculum : {SessionCurriculum, OtherCurriculum}] :
     IF e.status = "active" THEN e.savedAt = e.startedAt ELSE e.savedAt >= e.startedAt}

\* the session of an entry as saveSession, or endSession, has written it
StoredSessionOf(e) ==
  LET phase == e.curriculum.phases[1]
      started == [NewSession(e.curriculum, 1, phase, <<e.curriculum.id, e.startedAt>>,
                             e.startedAt)
                    EXCEPT !.curriculumPath = CurriculumPath]
  IN IF e.status = "active" THEN started
     ELSE recomputeTimeSpent(sealed(started, generateHandoff(started, phase, NoNotes),
                                    e.savedAt))

\* the file of an entry
StoredFileOf(e) == generateSessionFilename(e.curriculum.title, 1, e.savedAt)

\* the directory a set of entries with different file names makes
DirectoryOf(entries) ==
  [f \in {StoredFileOf(e) : e \in entries} |->
     serialize(StoredSessionOf(CHOOSE e \in entries : StoredFileOf(e) = f))]

\* the sessions directories a listing starts from, with and without a file
\* that does not parse
ListDisks ==
  LET chosen == {Range(q) : q \in SeqsUpTo(StoredEntries, MaxStored)}
      named == {entries \in chosen :
                  \A a, b \in entries : StoredFileOf(a) = StoredFileOf(b) => a = b}
  IN {DirectoryOf(entries) : entries \in named}
     \cup {(StrayFile :> NotJson) @@ DirectoryOf(entries) : entries \in named}

InitList ==
  /\ feedbackIn = <<>>
  /\ mergeResult = NoResult
  /\ consensusReached = FALSE
  /\ InitOrchVars
  /\ sessions = <<>>
  /\ currentSession = NoSession
  /\ disk \in ListDisks
  /\ now = ClockStart + TickMs
  /\ ticks = 0
  /\ calls = 0
  /\ lastCall = Call("none", NoSession, <<>>, <<>>)

NextList ==
  \/ ListSessions
  \/ FindActiveSession

SpecList == InitList /\ [][NextList]_vars

(***************************************************************************)
(* SpecCli: the status, wake and rest commands (cli/index.ts).  Every      *)
(* command runs in a process of its own: the register starts empty, the    *)
(* heap starts empty, and only the sessions directory outlives it.  After  *)
(* a command `sessions` and `currentSession` are the heap and the register *)
(* its process ended with.                                                 *)
(***************************************************************************)
\* wake without --phase
NoOption == 0

\* --phase N as given to wake: absent, phase 1 (available), phase 2 (locked)
\* and phase 3 (not in the curriculum)
PhaseOptions == {NoOption, 1, 2, 3}

\* the answers to wake's prompt 'What would you like to do?'
ResumeChoices == {"resume", "end", "cancel"}

\* -n, --notes <notes> of rest, or the notes typed at its prompt; none: ""
NotesOptions == {""} \cup Notes

\* a session that a program built on the session module has started with
\* startSessionFromPath and saved with saveSession when the clock started
StoredSession ==
  [NewSession(SessionCurriculum, 1, SessionCurriculum.phases[1], 0, ClockStart)
     EXCEPT !.curriculumPath = CurriculumPath]

\* the sessions directories the first command may find
CliDisks ==
  { <<>>,
    generateSessionFilename(CurriculumTitle, 1, ClockStart) :> serialize(StoredSession) }

\* what a command has done when its process ends: the exit code, the ids of
\* the session it found active, of the one it started and of the one it
\* ended, and what it printed last
Outcome(exitCode, found, started, ended, printed) ==
  [exitCode |-> exitCode, found |-> found, started |-> started, ended |-> ended,
   printed |-> printed]

\* the ids of a list of sessions
IdsOf(list) == [n \in 1..Len(list) |-> list[n].id]

\* SelectablePhases gone wrong: no choice of the phase prompt is disabled
EveryPhaseSelectable(curr) == {curr.phases[n].number : n \in 1..Len(curr.phases)}

\* choices of the phase prompt that are not disabled
SelectablePhases(curr) ==
  {curr.phases[n].number : n \in {k \in 1..Len(curr.phases) : curr.phases[k].status # "locked"}}

\* the process as it ends: heap, register, sessions directory and outcome
Exit(heap, register, d, outcome) ==
  [heap |-> heap, register |-> register, disk |-> d, outcome |-> outcome]

\* wake from 'Load curriculum' on: the phase is selected and the session is
\* started; uuid is the id uuidv4() yields
wakeStart(heap, d, phaseOption, selected, found, ended, clock, uuid) ==
  LET selectedPhase == IF phaseOption # NoOption THEN phaseOption ELSE selected
      phase == PhasesNumbered(SessionCurriculum, selectedPhase)
  IN IF phaseOption # NoOption /\ Len(phase) = 0
     THEN Exit(heap, NoSession, d,
               Outcome(0, found, <<>>, ended, <<"Phase ", selectedPhase, " not found in curriculum">>))
     ELSE IF phaseOption # NoOption /\ phase[1].status = "locked"
     THEN Exit(heap, NoSession, d,
               Outcome(0, found, <<>>, ended, <<"Phase ", selectedPhase, " is locked">>))
     ELSE LET out == startSession(SessionCurriculum, selectedPhase, heap, NoSession, clock)
              started == [out.heap EXCEPT ![out.session].id = uuid,
                                          ![out.session].curriculumPath = CurriculumPath]
          IN Exit(started, out.session, d,
                  Outcome(0, found, <<uuid>>, ended, <<"Starting learning session">>))

\* the wake command
wake(d, files, phaseOption, selected, choice, written, clock, uuid) ==
  LET existing == findActiveSession(d, files)
      found == IdsOf(existing)
  IN IF Len(existing) = 0
     THEN wakeStart(<<>>, d, phaseOption, selected, found, <<>>, clock, uuid)
     ELSE IF choice = "cancel"
     THEN Exit(existing, NoSession, d, Outcome(0, found, <<>>, <<>>, <<"Active session found">>))
     ELSE IF choice = "resume"
     THEN Exit(existing, 1, d, Outcome(0, found, <<>>, <<>>, <<"Active session found">>))
     ELSE LET phase == PhasesNumbered(SessionCurriculum, existing[1].phaseNumber)
          IN IF Len(phase) = 0
             THEN wakeStart(existing, d, phaseOption, selected, found, <<>>, clock, uuid)
             ELSE LET handoff == generateHandoff(existing[1], phase[1], NoNotes)
                      ended == recomputeTimeSpent(sealed(existing[1], handoff, clock))
                      filename == generateSessionFilename(ended.curriculumTitle,
                                                          ended.phaseNumber, clock)
                  IN IF written
                     THEN wakeStart(<<ended>>, (filename :> serialize(ended)) @@ d,
                                    phaseOption, selected, found, found, clock, uuid)
                     ELSE Exit(<<ended>>, NoSession, d,
                               Outcome(1, found, <<>>, <<>>, <<"Error starting session:", "EACCES">>))

\* the deliverables rest's checkbox offers: those of the session's phase
CheckboxDeliverableIds == <<"d1", "d2">>

\* the bd commands rest may run after the session is saved
BdCommands ==
  {<<"bd close ", "bd-t1">>, <<"bd close ", "bd-t2">>, <<"bd comment ", "bd-e1">>,
   <<"bd sync">>}

\* the issue tracker as a command finds it: whether bd is installed, whether
\* the project is initialised for it, and the bd commands that fail
Trackers ==
  {t \in [available : BOOLEAN, initialized : BOOLEAN, failing : SUBSET BdCommands] :
     ~(t.available /\ t.initialized) => t.failing = {}}

\* bd is not installed
NoTracker == [available |-> FALSE, initialized |-> FALSE, failing |-> {}]

\* execSync(command): the command as attempted and whether it threw
Attempt(command, tracker) == [command |-> command, failed |-> command \in tracker.failing]

\* completedDeliverableIds.forEach(delId => { try { updateIssueStatus(delId,
\* 'closed') } catch {} })
RECURSIVE closeEach(_, _)
closeEach(ids, tracker) ==
  IF ids = <<>> THEN <<>>
  ELSE <<Attempt(<<"bd close ", Head(ids)>>, tracker)>> \o closeEach(Tail(ids), tracker)

\* the same loop without its try: it ends at the first close that throws
RECURSIVE closeUntilFailure(_, _)
closeUntilFailure(ids, tracker) ==
  IF ids = <<>> THEN <<>>
  ELSE LET first == Attempt(<<"bd close ", Head(ids)>>, tracker)
       IN IF first.failed THEN <<first>>
          ELSE <<first>> \o closeUntilFailure(Tail(ids), tracker)

\* updateBeadsSessionProgress gone wrong: a close that throws is not caught
updateBeadsSessionProgressUncaught(completedDeliverableIds, phaseEpicId, handoffSummary, tracker) ==
  IF ~tracker.available \/ ~tracker.initialized THEN [log |-> <<>>, threw |-> FALSE]
  ELSE LET closed == closeUntilFailure(completedDeliverableIds, tracker)
       IN IF \E n \in 1..Len(closed) : closed[n].failed
          THEN [log |-> closed, threw |-> TRUE]
          ELSE [log |-> closed \o
                        (IF Len(phaseEpicId) > 0 /\ Len(handoffSummary) > 0
                         THEN <<Attempt(<<"bd comment ", phaseEpicId[1]>>, tracker)>>
                         ELSE <<>>),
                threw |-> FALSE]

\* updateBeadsSessionProgress(completedDeliverableIds, phaseEpicId,
\* handoffSummary): the bd commands it attempts and whether it threw
updateBeadsSessionProgress(completedDeliverableIds, phaseEpicId, handoffSummary, tracker) ==
  IF ~tracker.available \/ ~tracker.initialized THEN [log |-> <<>>, threw |-> FALSE]
  ELSE [log |-> closeEach(completedDeliverableIds, tracker) \o
                (IF Len(phaseEpicId) > 0 /\ Len(handoffSummary) > 0
                 THEN <<Attempt(<<"bd comment ", phaseEpicId[1]>>, tracker)>>
                 ELSE <<>>),
        threw |-> FALSE]

\* the issues of the phase's deliverables that the session has completed
deliverableBeadsIds(session, phase) ==
  LET completed == SelectSeq(phase.deliverables,
                             LAMBDA del : /\ \E n \in 1..Len(session.progress.deliverablesCompleted) :
                                               session.progress.deliverablesCompleted[n] = del.id
                                          /\ Len(del.beadsTaskId) > 0)
  IN [n \in 1..Len(completed) |-> completed[n].beadsTaskId[1]]

\* rest's 'BEADS sync if available' block: what was attempted, and whether
\* 'BEADS synced' was printed
beadsSync(session, phase, handoff, tracker) ==
  IF ~(tracker.available /\ tracker.initialized)
  THEN [given |-> tracker, log |-> <<>>, synced |-> FALSE]
  ELSE LET updated == updateBeadsSessionProgress(deliverableBeadsIds(session, phase),
                                                 phase.beadsEpicId, handoff.summary, tracker)
           sync == Attempt(<<"bd sync">>, tracker)
       IN IF updated.threw
          THEN [given |-> tracker, log |-> updated.log, synced |-> FALSE]
          ELSE [given |-> tracker, log |-> Append(updated.log, sync), synced |-> ~sync.failed]

\* completedDeliverables.forEach(delId => markDeliverableComplete(session, delId))
RECURSIVE markEach(_, _)
markEach(array, ids) ==
  IF ids = <<>> THEN array ELSE markEach(pushIfAbsent(array, Head(ids)), Tail(ids))

\* the rest command; the update of the curriculum file and the issue
\* tracker's sync follow endSession and do not touch the sessions directory
rest(d, files, objectiveIds, deliverableIds, notes, written, clock, tracker) ==
  LET existing == findActiveSession(d, files)
      found == IdsOf(existing)
  IN IF Len(existing) = 0
     THEN Exit(<<>>, NoSession, d, Outcome(0, found, <<>>, <<>>, <<"No active session found.">>))
     ELSE LET phase == PhasesNumbered(SessionCurriculum, existing[1].phaseNumber)
          IN IF Len(phase) = 0
             THEN Exit(existing, NoSession, d,
                       Outcome(0, found, <<>>, <<>>, <<"Phase not found in curriculum">>))
             ELSE LET marked ==
                        [existing[1] EXCEPT
                           !.progress.objectivesCompleted =
                              IF objectiveIds = {} THEN @
                              ELSE pushIfAbsent(@, CHOOSE id \in objectiveIds : TRUE),
                           !.progress.deliverablesCompleted =
                              markEach(@, SelectSeq(CheckboxDeliverableIds,
                                                    LAMBDA id : id \in deliverableIds)),
                           !.notes = IF notes = "" THEN @ ELSE Append(@, notes)]
                      handoff == generateHandoff(marked, phase[1], joinNotes(marked.notes))
                      ended == recomputeTimeSpent(sealed(marked, handoff, clock))
                      filename == generateSessionFilename(ended.curriculumTitle,
                                                          ended.phaseNumber, clock)
                  IN IF written
                     THEN Exit(<<ended>>, NoSession, (filename :> serialize(ended)) @@ d,
                               [tracker |-> beadsSync(ended, phase[1], handoff, tracker)]
                                 @@ Outcome(0, found, <<>>, found,
                                            <<"Session saved to: ", filename>>))
                     ELSE Exit(<<ended>>, NoSession, d,
                               Outcome(1, found, <<>>, <<>>, <<"Error ending session:", "EACCES">>))

\* the process ends: what it leaves behind
Exited(op, result) ==
  /\ sessions' = result.heap
  /\ currentSession' = result.register
  /\ disk' = result.disk
  /\ lastCall' = Call(op, result.register,
                      IF result.outcome.exitCode = 0 THEN <<>> ELSE <<"exit 1">>,
                      result.outcome)

\* groot status
Status ==
  /\ \E files \in ReaddirOrders(disk) :
       LET existing == findActiveSession(disk, files)
       IN Exited("status",
                 Exit(existing, NoSession, disk,
                      Outcome(0, IdsOf(existing), <<>>, <<>>,
                              IF Len(existing) > 0 THEN <<"Active Session">>
                              ELSE <<"No active session. Start one with: groot wake">>)))
  /\ Called /\ UNCHANGED <<now, ticks>>
  /\ UNCHANGED mergeVars /\ UNCHANGED orchVars

\* groot wake [--phase N]
Wake ==
  /\ \E files \in ReaddirOrders(disk) :
       \E phaseOption \in PhaseOptions :
         \E selected \in SelectablePhases(SessionCurriculum) :
           \E choice \in ResumeChoices :
             \E written \in BOOLEAN :
               Exited("wake", wake(disk, files, phaseOption, selected, choice, written,
                                   now, calls + 1))
  /\ Called /\ UNCHANGED <<now, ticks>>
  /\ UNCHANGED mergeVars /\ UNCHANGED orchVars

\* groot rest [-n notes] [-q], with the deliverables that are ticked and the
\* issue tracker drawn from the given sets
RestWith(ticked, trackers) ==
  /\ \E files \in ReaddirOrders(disk) :
       IF findActiveSession(disk, files) = <<>>
       THEN Exited("rest", rest(disk, files, {}, {}, "", TRUE, now, NoTracker))
       ELSE \E objectiveIds \in SUBSET ObjectiveIds :
              \E deliverableIds \in SUBSET ticked :
                \E notes \in NotesOptions :
                  \E written \in BOOLEAN :
                    \E tracker \in trackers :
                      Exited("rest", rest(disk, files, objectiveIds, deliverableIds, notes,
                                          written, now, tracker))
  /\ Called /\ UNCHANGED <<now, ticks>>
  /\ UNCHANGED mergeVars /\ UNCHANGED orchVars

\* groot rest on a machine without bd
Rest == RestWith(DeliverableIds, {NoTracker})

\* groot rest where bd may be installed and the project initialised for it
RestSynced == RestWith(Range(CheckboxDeliverableIds), Trackers)

InitCli ==
  /\ feedbackIn = <<>>
  /\ mergeResult = NoResult
  /\ consensusReached = FALSE
  /\ InitOrchVars
  /\ sessions = <<>>
  /\ currentSession = NoSession
  /\ disk \in CliDisks
  /\ now = ClockStart
  /\ ticks = 0
  /\ calls = 0
  /\ lastCall = Call("none", NoSession, <<>>, <<>>)

NextCli ==
  \/ Status
  \/ Wake
  \/ Rest
  \/ Tick

SpecCli == InitCli /\ [][NextCli]_vars

(***************************************************************************)
(* SpecRest: the rest command with the issue tracker, on a sessions        *)
(* directory that holds an active session or none.                         *)
(***************************************************************************)
NextRest == RestSynced

SpecRest == InitCli /\ [][NextRest]_vars

(***************************************************************************)
(* The merge step's claims.  They are stated on the returned               *)
(* OrchestrationResult, with the groups the claims speak of: the feedback  *)
(* items that share a target.                                              *)
(***************************************************************************)
Merged == mergeResult.returned

FeedbackRefs == 1..Len(mergeResult.allFeedback)

Item(i) == mergeResult.allFeedback[i]

Unresolved == Range(mergeResult.unresolvedIssues)

\* the references of the items that share i's target
SharingTarget(i) == {j \in FeedbackRefs : Item(j).target = Item(i).target}

\* some message of the agent's items in the set carries a keyword of the table
Signals(S, agent, messageWants) ==
  \E j \in S : Item(j).agentName = agent /\ messageWants[Item(j).message]

\* one reviewer asks for more and the other for less, among the items that
\* share i's target
InMismatchedGroup(i) ==
  LET S == SharingTarget(i)
  IN \/ Signals(S, "canopy", MessageWantsMore) /\ Signals(S, "bark", MessageWantsLess)
     \/ Signals(S, "canopy", MessageWantsLess) /\ Signals(S, "bark", MessageWantsMore)

\* how often a value occurs in a sequence
Occurrences(seq, v) == Cardinality({n \in 1..Len(seq) : seq[n] = v})

\* C1: every feedback item of critical severity is in unresolvedIssues,
\* whether or not its group is a conflict and whatever its category.
C1_CriticalAlwaysUnresolved ==
  Merged => \A i \in FeedbackRefs : Item(i).severity = "critical" => i \in Unresolved

\* a merge of a list with a critical item inside a conflicting group and a
\* critical item of another category outside any conflicting group
C1_Witness ==
  /\ Merged
  /\ \E i, j \in FeedbackRefs :
       /\ Item(i).severity = "critical" /\ InMismatchedGroup(i)
       /\ Item(j).severity = "critical" /\ ~InMismatchedGroup(j)
       /\ Item(i).category # Item(j).category

\* C2: every item of a group in which the two reviewers pull in opposite
\* directions is in unresolvedIssues, whatever agent produced it, and a group
\* without such a mismatch has none of its non-critical items there.
C2_ConflictGroupsUnresolved ==
  Merged =>
    \A i \in FeedbackRefs :
      /\ InMismatchedGroup(i) => i \in Unresolved
      /\ (~InMismatchedGroup(i) /\ Item(i).severity # "critical") => i \notin Unresolved

\* C3: success is false exactly when unresolvedIssues is non-empty or some
\* feedback item is a blocker.
C3_SuccessIffNothingOpen ==
  Merged =>
    (mergeResult.success = FALSE
       <=> \/ Len(mergeResult.unresolvedIssues) > 0
           \/ \E i \in FeedbackRefs : Item(i).feedbackType = "blocker")

StageReached == events[Len(events)][2]

\* the position of a stage in the pipeline
StageIndex(stage) == CHOOSE k \in 1..Len(Stages) : Stages[k] = stage

\* the index in events of a callback, 0 when it has not fired
FiredAt(callback) ==
  IF \E n \in 1..Len(events) : events[n] = callback
  THEN CHOOSE n \in 1..Len(events) : events[n] = callback
  ELSE 0

\* the stages that can raise the cause an orchestration error wraps
StagesRaising(error) ==
  {Stages[k] : k \in {n \in 1..Len(Stages) :
                        \E c \in StageFailures(Stages[n]) : OrchestrationError(c) = error}}

\* a failed run: one wrapped error, no result, and nothing of a later stage
FailedRunStopsThere ==
  /\ Len(events) > 0
  /\ events[Len(events)][1] = "onPhaseStart"
  /\ \E cause \in StageFailures(StageReached) :
       orchError = <<"Orchestration failed: ", cause>>
  /\ ~mergeResult.returned
  /\ \A k \in 1..Len(Stages) :
       k > StageIndex(StageReached) =>
         /\ FiredAt(<<"onPhaseStart", Stages[k]>>) = 0
         /\ \A a \in StageAgents(Stages[k], fromFile) : agentCalls[a] = 0
  /\ inFlight = {}
  /\ ~ENABLED NextOrch

\* C5 as claimed: a stage that raises ends the run with one orchestration
\* error whose message identifies the stage, with no result and no later
\* stage started.
C5_FailureNamesItsStage ==
  orchPc = "failed" =>
    /\ FailedRunStopsThere
    /\ StagesRaising(orchError) = {StageReached}

\* C5 as amended: a stage that raises ends the run with one error whose
\* message is "Orchestration failed: " followed by the cause's message, with
\* no result and no later stage started.
C5_FailureWrappedAndFinal ==
  orchPc = "failed" => FailedRunStopsThere

\* a run that failed in its pedagogical review, after two stages completed
C5_Witness ==
  /\ orchPc = "failed"
  /\ StageReached = "pedagogical-review"
  /\ orchError = <<"Orchestration failed: ", ChatError>>

\* C6: the stages run one after another in the order generate, technical
\* review, pedagogical review, merge: a stage starts only after the stage
\* before it has completed, each agent is invoked at most once in a run, also
\* after a failed call, and the two reviews are never in flight together.
C6_StagesStrictlySequential ==
  /\ \A n \in 1..Len(events) :
       events[n][1] = "onPhaseStart" =>
         LET k == StageIndex(events[n][2])
         IN /\ \A m \in 1..(n - 1) :
                 events[m][1] = "onPhaseStart" => StageIndex(events[m][2]) < k
            /\ k > 1 =>
                 /\ FiredAt(<<"onPhaseComplete", Stages[k - 1], TRUE>>) > 0
                 /\ FiredAt(<<"onPhaseComplete", Stages[k - 1], TRUE>>) < n
  /\ \A a \in DOMAIN agentCalls : agentCalls[a] <= 1
  /\ Cardinality(inFlight) <= 1
  /\ \A a \in inFlight : orchPc \in {"generate", "technical-review", "pedagogical-review"}
                         /\ a \in StageAgents(orchPc, fromFile)

\* a run that went through the four stages and returned, each agent invoked
\* once
C6_Witness ==
  /\ orchPc = "returned"
  /\ Len(events) = 8
  /\ \A a \in DOMAIN agentCalls : agentCalls[a] = 1

(***************************************************************************)
(* The session module's claims.                                            *)
(***************************************************************************)
\* getCurrentSession() and hasActiveSession()
getCurrentSession == currentSession

hasActiveSession ==
  currentSession # NoSession /\ sessions[currentSession].status = "active"

\* the sessions (by id) that have an object of status active
ActiveSessionIds == {sessions[r].id : r \in {q \in Refs : sessions[q].status = "active"}}

\* C7: after any sequence of startSession, startSessionFromPath,
\* setCurrentSession and endSession calls at most one session has status
\* active: a new one becomes active only once the one before is ended.
C7_AtMostOneActiveSession == Cardinality(ActiveSessionIds) <= 1

\* C8: startSession with a phase number the curriculum does not have throws
\* the phase-not-found error and leaves the active-session register, and
\* every session, as they were.
C8_MissingPhaseLeavesRegister ==
  [][ (/\ calls' # calls
       /\ lastCall'.op \in {"startSession", "startSessionFromPath"}
       /\ Len(PhasesNumbered(SessionCurriculum, lastCall'.detail[1])) = 0)
      => /\ lastCall'.threw = PhaseNotFound(lastCall'.detail[1])
         /\ currentSession' = currentSession
         /\ sessions' = sessions ]_vars

\* startSession has failed on a missing phase while the register held a
\* session
C8_Witness ==
  /\ lastCall.op = "startSession"
  /\ lastCall.threw = PhaseNotFound(3)
  /\ currentSession # NoSession

\* C9: after endSession(session, handoff) has returned the session is
\* completed, has endedAt and the given handoff, the file saveSession wrote
\* holds those values, and the active-session register is empty.
C9_EndSessionSealsSavesAndClears ==
  (lastCall.op = "endSession" /\ lastCall.threw = <<>>) =>
    LET session == sessions[lastCall.session]
        filePath == lastCall.detail[1]
        handoff == lastCall.detail[2]
    IN /\ session.status = "completed"
       /\ Len(session.endedAt) = 1
       /\ session.handoff = <<handoff>>
       /\ filePath \in DOMAIN disk
       /\ disk[filePath].id = session.id
       /\ disk[filePath].status = "completed"
       /\ disk[filePath].handoff = <<handoff>>
       /\ disk[filePath].endedAt = <<toISOString(session.endedAt[1])>>
       /\ getCurrentSession = NoSession
       /\ ~hasActiveSession

\* endSession has returned for the session the register held, half a minute
\* or more after it was started
C9_Witness ==
  /\ lastCall.op = "endSession"
  /\ lastCall.threw = <<>>
  /\ sessions[lastCall.session].endedAt[1] > sessions[lastCall.session].startedAt
  /\ Len(sessions) > 1

\* C10: the status of a session object changes only from active to
\* completed and only in endSession; startSession creates it active; no
\* other operation changes it, none makes it abandoned, and a completed
\* session never becomes active again.
C10_StatusOnlyEndsInEndSession ==
  [][ /\ \A r \in 1..Len(sessions) :
           sessions'[r].status # sessions[r].status =>
             /\ sessions[r].status = "active"
             /\ sessions'[r].status = "completed"
             /\ lastCall'.op = "endSession"
             /\ lastCall'.session = r
      /\ \A r \in (1..Len(sessions')) \ (1..Len(sessions)) :
           /\ lastCall'.op \in {"startSession", "startSessionFromPath", "loadSession"}
           /\ lastCall'.op # "loadSession" => sessions'[r].status = "active"
      /\ \A r \in 1..Len(sessions') : sessions'[r].status \in {"active", "completed"} ]_vars

\* a completed session has been handed to another operation afterwards
C10_Witness ==
  /\ lastCall.op \in {"saveSession", "setCurrentSession", "markObjectiveComplete",
                      "addSessionNote"}
  /\ lastCall.session # NoSession
  /\ sessions[lastCall.session].status = "completed"

(***************************************************************************)
(* The commands' claims.                                                   *)
(***************************************************************************)
\* C11: a session that wake has started is found as the active one by the
\* status or rest command that follows in a process of its own, and after
\* rest has ended a session the command that follows finds none active.
C11_SessionRecoveredByNextCommand ==
  [][ (calls' # calls /\ lastCall'.op \in {"status", "rest"}) =>
        /\ (lastCall.op = "wake" /\ Len(lastCall.detail.started) > 0)
             => lastCall'.detail.found = lastCall.detail.started
        /\ (lastCall.op = "rest" /\ Len(lastCall.detail.ended) > 0)
             => lastCall'.detail.found = <<>> ]_vars

(***************************************************************************)
(* The session module's claims on progress, hand-offs and files.           *)
(***************************************************************************)
\* C12: once endedAt is set and the session has gone through endSession or
\* saveSession, progress.timeSpentMinutes is the number of whole minutes
\* between startedAt and endedAt.
C12_TimeSpentIsWholeMinutes ==
  \A r \in Refs :
    Len(sessions[r].endedAt) > 0 =>
      sessions[r].progress.timeSpentMinutes =
        (sessions[r].endedAt[1] - sessions[r].startedAt) \div MinuteMs

\* no value occurs twice in the sequence
NoDuplicates(seq) == \A i, j \in 1..Len(seq) : seq[i] = seq[j] => i = j

\* C13: marking an objective or a deliverable complete leaves its id in the
\* list exactly once, and marking an id the list holds already leaves every
\* session as it was.
C13_MarkingIsIdempotent ==
  [][ (calls' # calls
       /\ lastCall'.op \in {"markObjectiveComplete", "markDeliverableComplete"}) =>
        LET r == lastCall'.session
            id == lastCall'.detail[1]
            before == IF lastCall'.op = "markObjectiveComplete"
                      THEN sessions[r].progress.objectivesCompleted
                      ELSE sessions[r].progress.deliverablesCompleted
            after == IF lastCall'.op = "markObjectiveComplete"
                     THEN sessions'[r].progress.objectivesCompleted
                     ELSE sessions'[r].progress.deliverablesCompleted
        IN /\ NoDuplicates(before) => NoDuplicates(after)
           /\ Occurrences(after, id) = 1
           /\ id \in Range(before) => sessions' = sessions
           /\ id \notin Range(before) => after = Append(before, id) ]_vars

\* an objective has been marked complete a second time
C13_Witness ==
  /\ lastCall.op = "markObjectiveComplete"
  /\ lastCall.detail[2]
  /\ sessions[lastCall.session].progress.objectivesCompleted = <<lastCall.detail[1]>>

\* C14: addSessionNote is an idempotent set-insert: a note text occurs in
\* session.notes at most once, however often it is added.
C14_NotesHoldEachNoteOnce ==
  \A r \in Refs : NoDuplicates(sessions[r].notes)

\* the session and the phase of the last generateHandoff call, its result,
\* and the phase's entries whose ids the session's progress does not hold
HandoffSession == sessions[lastCall.session]
HandoffPhase == PhaseOfSession(HandoffSession)
HandoffReturned == lastCall.detail[1]
RemainingDeliverables ==
  SelectSeq(HandoffPhase.deliverables,
            LAMBDA x : \A n \in 1..Len(HandoffSession.progress.deliverablesCompleted) :
                         HandoffSession.progress.deliverablesCompleted[n] # x.id)
RemainingObjectives ==
  SelectSeq(HandoffPhase.objectives,
            LAMBDA x : \A n \in 1..Len(HandoffSession.progress.objectivesCompleted) :
                         HandoffSession.progress.objectivesCompleted[n] # x.id)

\* 1 if the sequence has an element, else 0
Some(seq) == IF Len(seq) > 0 THEN 1 ELSE 0

C16_NextStepsInFixedOrder ==
  lastCall.op = "generateHandoff" =>
    LET nextSteps == HandoffReturned.nextSteps
        d == Some(RemainingDeliverables)
        o == Some(RemainingObjectives)
        n == Some(HandoffSession.notes)
    IN /\ Len(nextSteps) = d + o + n
       /\ d = 1 => nextSteps[1] = <<"Start with: ", RemainingDeliverables[1].title>>
       /\ o = 1 => nextSteps[d + 1] = <<"Focus on: ", RemainingObjectives[1].description>>
       /\ n = 1 => nextSteps[d + o + 1] = <<"Review notes from last session">>

\* generateHandoff on the session with one of three objectives and none of
\* two deliverables complete, and a note
C16_Witness ==
  /\ lastCall.op = "generateHandoff"
  /\ HandoffSession.progress.objectivesCompleted = <<"o1">>
  /\ HandoffSession.progress.deliverablesCompleted = <<>>
  /\ Len(HandoffSession.notes) > 0
  /\ HandoffReturned.nextSteps[1] = <<"Start with: ", "Test file">>
  /\ Len(HandoffReturned.nextSteps) = 3

\* C17: promptForNextSession ends with "Focus on" the first remaining
\* deliverable when one remains, else with "Complete" the first remaining
\* objective when one remains, else with neither; never with both.
C17_PromptSuffixIsEitherOr ==
  lastCall.op = "generateHandoff" =>
    LET prompt == HandoffReturned.promptForNextSession
        resume == <<"Resume Phase ", HandoffSession.phaseNumber, " - ",
                    HandoffSession.phaseTitle>>
    IN /\ Len(RemainingDeliverables) > 0 =>
            prompt = resume \o <<". Focus on: ", RemainingDeliverables[1].title>>
       /\ (Len(RemainingDeliverables) = 0 /\ Len(RemainingObjectives) > 0) =>
            prompt = resume \o <<". Complete: ", RemainingObjectives[1].description>>
       /\ (Len(RemainingDeliverables) = 0 /\ Len(RemainingObjectives) = 0) =>
            prompt = resume
       /\ ~\E i, j \in (Len(resume) + 1)..Len(prompt) :
             prompt[i] = ". Focus on: " /\ prompt[j] = ". Complete: "

\* generateHandoff on a session with every deliverable and not every
\* objective complete
C17_Witness ==
  /\ lastCall.op = "generateHandoff"
  /\ Len(RemainingDeliverables) = 0
  /\ Len(RemainingObjectives) = 2
  /\ Len(HandoffReturned.promptForNextSession) = 6

\* C18: loadSession of the file that saveSession(s) has just written returns
\* a session equal to s in every field, startedAt and endedAt being dates
\* equal to those of s and endedAt absent when s has none.
C18_LoadReturnsWhatSaveWrote ==
  [][ (/\ calls' # calls
       /\ lastCall.op = "saveSession" /\ lastCall.threw = <<>>
       /\ lastCall'.op = "loadSession"
       /\ lastCall'.detail = lastCall.detail) =>
        /\ lastCall'.threw = <<>>
        /\ sessions'[lastCall'.session] = sessions[lastCall.session]
        /\ Len(sessions'[lastCall'.session].endedAt) = Len(sessions[lastCall.session].endedAt) ]_vars

\* a session that was ended, saved again and loaded: the loaded object
\* equals the saved one
C18_Witness ==
  /\ lastCall.op = "loadSession"
  /\ lastCall.threw = <<>>
  /\ calls >= 4
  /\ Len(sessions) = 2
  /\ sessions[2] = sessions[1]
  /\ Len(sessions[2].endedAt) = 1
  /\ Len(sessions[2].handoff) = 1

\* C19: the name of the file saveSession writes depends only on the
\* session's start date, the slug of the curriculum title and the phase
\* number: every file is named by the start date of the session it holds,
\* and a session saved again, whenever, is written to the same file.
C19_FileNamedByStartDate ==
  /\ \A f \in DOMAIN disk :
       Readable(disk[f]) =>
         f = generateSessionFilename(disk[f].curriculumTitle, disk[f].phaseNumber,
                                     parseDate(disk[f].startedAt))
  /\ \A f, g \in DOMAIN disk :
       (Readable(disk[f]) /\ Readable(disk[g]) /\ disk[f].id = disk[g].id) => f = g

\* the files of the sessions directory that load, and those of them that
\* hold an active session
ReadableFiles == {f \in DOMAIN disk : Readable(disk[f])}
ActiveFiles == {f \in ReadableFiles : disk[f].status = "active"}

\* C20: listSessions returns every readable session file, only those of the
\* given curriculum when one is given, most recently started first;
\* findActiveSession returns the most recently started session whose
\* status is active, and none when no stored session is active.
C20_ListedNewestFirstAndActiveFound ==
  /\ lastCall.op = "listSessions" =>
       LET curriculumId == lastCall.detail[1]
           list == lastCall.detail[2]
           Listed == {f \in ReadableFiles :
                        curriculumId = AnyCurriculum \/ disk[f].curriculumId = curriculumId}
       IN /\ Len(list) = Cardinality(Listed)
          /\ \A f \in Listed :
               Occurrences(list, deserialize(disk[f])) =
                 Cardinality({g \in Listed : disk[g] = disk[f]})
          /\ \A i, j \in 1..Len(list) : i < j => list[i].startedAt >= list[j].startedAt
  /\ lastCall.op = "findActiveSession" =>
       LET found == lastCall.detail
       IN IF ActiveFiles = {} THEN found = <<>>
          ELSE /\ Len(found) = 1
               /\ \E f \in ActiveFiles : found[1] = deserialize(disk[f])
               /\ \A f \in ActiveFiles : found[1].startedAt >= parseDate(disk[f].startedAt)

\* findActiveSession on a directory with two active sessions started at
\* different times and a file that does not parse
C20_Witness ==
  /\ lastCall.op = "findActiveSession"
  /\ StrayFile \in DOMAIN disk
  /\ \E f, g \in ActiveFiles : disk[f].startedAt # disk[g].startedAt
  /\ Len(lastCall.detail) = 1

(***************************************************************************)
(* The commands' exit codes.                                               *)
(***************************************************************************)
\* the diagnostics a command prints when validation or the run fails
FailureDiagnostics ==
  {"Phase ", "Phase not found in curriculum", "Error starting session:",
   "Error ending session:"}

\* C21: a command exits with code 1 whenever it hits a validation or
\* runtime failure (wake --phase N with N absent from the curriculum or
\* locked, rest with the session's phase missing) and with code 0 otherwise.
C21_FailureExitsWithOne ==
  lastCall.op \in {"status", "wake", "rest"} =>
    (lastCall.detail.exitCode = 1 <=> lastCall.detail.printed[1] \in FailureDiagnostics)

(***************************************************************************)
(* The fromFile mode of orchestrateGrow.                                   *)
(***************************************************************************)
\* no reviewer has been invoked
NoReviewerInvoked == agentCalls["canopy"] = 0 /\ agentCalls["bark"] = 0

\* step 1 of the run is over
LoadingIsOver == orchPc \notin {"idle", "generate"}

\* the run has failed in step 1 with this cause, and no reviewer was invoked
FailedLoadingWith(cause) ==
  /\ orchPc = "failed"
  /\ orchError = OrchestrationError(cause)
  /\ StageReached = "generate"
  /\ NoReviewerInvoked

EndedFiles ==
  {f \in ReadableFiles : disk[f].id = lastCall.detail.ended[1] /\ disk[f].status = "completed"}

\* the bd commands a log attempted, in order
CommandsOf(log) == [n \in 1..Len(log) |-> log[n].command]

\* the closes rest owes the tracker: one per completed deliverable of the
\* phase, in the phase's order
ClosesOwed(completed) ==
  SelectSeq(<< <<"bd close ", "bd-t1">>, <<"bd close ", "bd-t2">> >>,
            LAMBDA command :
              \E n \in 1..Len(completed) :
                \/ completed[n] = "d1" /\ command[2] = "bd-t1"
                \/ completed[n] = "d2" /\ command[2] = "bd-t2")

\* C23: a failing tracker call never fails rest: the session is ended and
\* saved and the exit code is 0; every completed deliverable's issue is
\* closed, or tried, and the handoff comment is posted, or tried, whichever
\* of these calls fail, and the sync follows; nothing is attempted when the
\* tracker is not installed or the project not initialised for it.
C23_TrackerFailuresAreSwallowed ==
  (lastCall.op = "rest" /\ Len(lastCall.detail.ended) > 0) =>
    LET tracker == lastCall.detail.tracker
    IN /\ lastCall.detail.exitCode = 0
       /\ lastCall.threw = <<>>
       /\ EndedFiles # {}
       /\ currentSession = NoSession
       /\ IF tracker.given.available /\ tracker.given.initialized
          THEN \A f \in EndedFiles :
                 CommandsOf(tracker.log) =
                   ClosesOwed(disk[f].progress.deliverablesCompleted)
                     \o << <<"bd comment ", "bd-e1">>, <<"bd sync">> >>
          ELSE tracker.log = <<>>

\* rest has completed two deliverables, the first close has failed, and so
\* have the comment and the sync
C23_Witness ==
  /\ lastCall.op = "rest"
  /\ Len(lastCall.detail.ended) > 0
  /\ Len(lastCall.detail.tracker.log) = 4
  /\ lastCall.detail.tracker.log[1].failed
  /\ ~lastCall.detail.tracker.log[2].failed
  /\ lastCall.detail.tracker.log[3].failed
  /\ lastCall.detail.tracker.log[4].failed
  /\ lastCall.detail.exitCode = 0

(***************************************************************************)
(* The curriculum in the merge step.                                       *)
(***************************************************************************)
\* the step in which mergeFeedback returns
MergeReturned == ~mergeResult.returned /\ mergeResult'.returned

\* C24: the merge step never changes the curriculum from feedback: the
\* finalCurriculum it returns has the fields and the phases of the input
\* curriculum, and the input curriculum object is as it was.
C24_MergeLeavesCurriculum ==
  [][MergeReturned =>
       /\ DOMAIN mergeResult'.finalCurriculum = DOMAIN orchCurriculum
       /\ \A field \in DOMAIN orchCurriculum :
            mergeResult'.finalCurriculum[field] = orchCurriculum[field]
       /\ mergeResult'.finalCurriculum.phases = orchCurriculum.phases
       /\ orchCurriculum' = orchCurriculum]_vars

\* mergeFeedback has returned with a change recorded and an issue open
C24_Witness ==
  /\ mergeResult.returned
  /\ Len(mergeResult.appliedChanges) > 0
  /\ Len(mergeResult.unresolvedIssues) > 0
  /\ mergeResult.finalCurriculum = SampleCurriculum

(***************************************************************************)
(* Conflict detection, group by group.                                     *)
(***************************************************************************)
\* what detectConflicts made of the merged list
Split == detectConflicts(mergeResult.allFeedback)

\* C25: conflicts are decided per group of items with the same target type
\* and phase number: the reviewers' items of a group are conflicts exactly
\* when, within the group, one reviewer has a message with an increasing
\* keyword and the other a message with a decreasing one (in any letter
\* case, as a substring); opposing messages of one reviewer, or of the two
\* reviewers on different targets, make no conflict.
C25_ConflictIffOpposedWithinGroup ==
  Merged =>
    /\ MessageWantsMore[MsgUp] /\ ~MessageWantsLess[MsgUp]
    /\ MessageWantsLess[MsgDown] /\ ~MessageWantsMore[MsgDown]
    /\ ~MessageWantsMore[MsgNeutral] /\ ~MessageWantsLess[MsgNeutral]
    /\ LET split == Split
           conflicts == Range(split.conflicts)
           nonConflicting == Range(split.nonConflicting)
       IN \A i \in FeedbackRefs :
            LET mismatched == InMismatchedGroup(i)
            IN /\ i \in conflicts
                    <=> (mismatched /\ Item(i).agentName \in {"canopy", "bark"})
               /\ i \in nonConflicting <=> ~mismatched
               /\ Item(i).severity # "critical" => (i \in Unresolved <=> i \in conflicts)

\* one reviewer asks for more and for less on one target and the other
\* reviewer asks for less on another target: no conflict
C25_Witness ==
  /\ Merged
  /\ \E i, j, k \in FeedbackRefs :
       /\ Item(i).agentName = "canopy" /\ MessageWantsMore[Item(i).message]
       /\ Item(j).agentName = "canopy" /\ MessageWantsLess[Item(j).message]
       /\ Item(i).target = Item(j).target
       /\ Item(k).agentName = "bark" /\ MessageWantsLess[Item(k).message]
       /\ Item(k).target # Item(i).target
  /\ Split.conflicts = <<>>

(***************************************************************************)
(* The handoff's partition of the phase.                                   *)
(***************************************************************************)
\* the ids a session has recorded as completed
CompletedIds(session) ==
  Range(session.progress.objectivesCompleted) \cup Range(session.progress.deliverablesCompleted)

\* C26: generateHandoff splits the phase's objectives and deliverables into
\* completed and remaining by their ids' membership in session.progress:
\* each objective and each deliverable has exactly one entry, in
\* completedWork if its id is recorded and in remainingWork if not, and the
\* summary's X/Y counts are the completed and all of the phase, X <= Y, also
\* when session.progress holds ids the phase does not have.
C26_HandoffPartitionsThePhase ==
  lastCall.op = "generateHandoff" =>
    LET handoff == HandoffReturned
        phase == HandoffPhase
        ids == CompletedIds(HandoffSession)
        objectives == {phase.objectives[n] : n \in 1..Len(phase.objectives)}
        deliverables == {phase.deliverables[n] : n \in 1..Len(phase.deliverables)}
    IN /\ Len(handoff.completedWork) + Len(handoff.remainingWork) =
            Len(phase.objectives) + Len(phase.deliverables)
       /\ \A o \in objectives :
            /\ Occurrences(handoff.completedWork, <<o.description>>) =
                 (IF o.id \in ids THEN 1 ELSE 0)
            /\ Occurrences(handoff.remainingWork, <<o.description>>) =
                 (IF o.id \in ids THEN 0 ELSE 1)
       /\ \A del \in deliverables :
            /\ Occurrences(handoff.completedWork, <<"Completed: ", del.title>>) =
                 (IF del.id \in ids THEN 1 ELSE 0)
            /\ Occurrences(handoff.remainingWork, <<del.title>>) =
                 (IF del.id \in ids THEN 0 ELSE 1)
       /\ handoff.summary[7] = Cardinality({o \in objectives : o.id \in ids})
       /\ handoff.summary[9] = Len(phase.objectives)
       /\ handoff.summary[12] = Cardinality({del \in deliverables : del.id \in ids})
       /\ handoff.summary[14] = Len(phase.deliverables)
       /\ handoff.summary[7] <= handoff.summary[9]
       /\ handoff.summary[12] <= handoff.summary[14]

\* a handoff of a session that has recorded every objective of the phase,
\* one of its deliverables, and an objective and a deliverable of no phase
C26_Witness ==
  /\ lastCall.op = "generateHandoff"
  /\ {"o1", "o2", "o3", "o9", "d1", "d9"} \subseteq CompletedIds(HandoffSession)
  /\ "d2" \notin CompletedIds(HandoffSession)
  /\ HandoffReturned.summary[7] = 3
  /\ Len(HandoffReturned.remainingWork) = 1

(***************************************************************************)
(* wake and locked phases.                                                 *)
(***************************************************************************)
\* the sessions of the process that a wake command has started
StartedByWake ==
  {n \in 1..Len(sessions) :
     \E k \in 1..Len(lastCall.detail.started) : sessions[n].id = lastCall.detail.started[k]}

\* wake has refused the phase of --phase as locked
RefusedAsLocked ==
  /\ Len(lastCall.detail.printed) = 3
  /\ lastCall.detail.printed[3] = " is locked"

\* C27: wake never starts a session on a locked phase, whether the phase
\* comes from --phase N or from the prompt; when the phase of --phase is
\* locked no session is created and the register stays empty.
C27_WakeNeverStartsLockedPhase ==
  lastCall.op = "wake" =>
    /\ \A n \in StartedByWake :
         \E k \in 1..Len(SessionCurriculum.phases) :
           /\ SessionCurriculum.phases[k].number = sessions[n].phaseNumber
           /\ SessionCurriculum.phases[k].status # "locked"
    /\ RefusedAsLocked =>
         /\ lastCall.detail.started = <<>>
         /\ StartedByWake = {}
         /\ currentSession = NoSession
         /\ \A n \in 1..Len(sessions) :
              \E k \in 1..Len(lastCall.detail.found) : sessions[n].id = lastCall.detail.found[k]

\* wake --phase 2 has ended the session it found and refused phase 2
C27_Witness ==
  /\ lastCall.op = "wake"
  /\ RefusedAsLocked
  /\ lastCall.detail.printed[2] = 2
  /\ Len(lastCall.detail.ended) = 1
  /\ Len(sessions) = 1
  /\ sessions[1].status = "completed"

(***************************************************************************)
(* Repeated entries of unresolvedIssues.                                   *)
(***************************************************************************)
\* C28: no feedback item appears more than once in unresolvedIssues: an
\* item that is critical and part of a conflicting group is listed once.
C28_UnresolvedListsEachItemOnce ==
  Merged => \A i \in FeedbackRefs : Occurrences(mergeResult.unresolvedIssues, i) <= 1

(***************************************************************************)
(* Blockers in a full run.                                                 *)
(***************************************************************************)
\* the feedback items the reviewers have returned so far in the run
ReviewedSoFar == Range(technicalFeedback) \cup Range(pedagogicalFeedback)

\* C29: in a full run a feedback item is a blocker only if its severity is
\* critical; every blocker is in unresolvedIssues and success is false
\* whenever there is a blocker.
C29_BlockersAreCriticalAndOpen ==
  /\ \A f \in ReviewedSoFar : f.feedbackType = "blocker" => f.severity = "critical"
  /\ (orchPc = "returned") =>
       /\ Range(mergeResult.allFeedback) = ReviewedSoFar
       /\ \A i \in FeedbackRefs :
            Item(i).feedbackType = "blocker" =>
              (Item(i).severity = "critical" /\ i \in Unresolved)
       /\ (\E i \in FeedbackRefs : Item(i).feedbackType = "blocker")
            => mergeResult.success = FALSE

\* a run has returned with a blocker of one reviewer and a concern of high
\* severity of the other
C29_Witness ==
  /\ orchPc = "returned"
  /\ \E i, j \in FeedbackRefs :
       /\ Item(i).feedbackType = "blocker" /\ Item(i).agentName = "bark"
       /\ Item(j).feedbackType = "concern" /\ Item(j).severity = "high"
       /\ Item(j).agentName = "canopy"
  /\ ~mergeResult.success

(***************************************************************************)
(* endSession and the register.                                            *)
(***************************************************************************)
\* endSession returns for a session other than the one the register holds
EndsAnotherSession ==
  /\ calls' = calls + 1
  /\ lastCall'.op = "endSession"
  /\ lastCall'.threw = <<>>
  /\ currentSession # NoSession
  /\ currentSession # lastCall'.session

\* C30: endSession empties the register also when the session it ends is
\* not the one the register holds: the registered session is dropped from
\* the register and is otherwise as it was, its status still active.
C30_EndSessionDropsRegisteredSession ==
  [][EndsAnotherSession =>
       /\ currentSession' = NoSession
       /\ sessions'[currentSession] = sessions[currentSession]
       /\ sessions'[currentSession].status = sessions[currentSession].status]_vars

\* endSession has returned for one session while another one is active, and
\* the register is empty
C30_Witness ==
  /\ lastCall.op = "endSession"
  /\ lastCall.threw = <<>>
  /\ currentSession = NoSession
  /\ \E n \in Refs : n # lastCall.session /\ sessions[n].status = "active"

====
